---- MODULE Spec2Model ----
(***************************************************************************)
(* TrendScout: a model of the collection pipeline (main.py, dashboard.py), *)
(* the Data Filter, the AI Analyzer (its batches and the retries of one    *)
(* record), the Trend Finder, the Trend Scorer, the Viral Content Filter,  *)
(* the geography utilities, the Usage Tracker, the collectors' credential  *)
(* checks and the Dashboard's session.                                     *)
(*                                                                         *)
(* Conventions.                                                            *)
(*  - Text is a TLA+ string, read character by character with Ch.          *)
(*  - A time is an integer number of hours relative to "now" (negative =   *)
(*    past); the successive datetime.now() calls of one stage are one      *)
(*    instant.                                                             *)
(*  - A Python value that may be absent or of several types is a record    *)
(*    with a kind field k.                                                 *)
(*  - An operation that may raise returns Ok(v) or Raised.                 *)
(***************************************************************************)
EXTENDS Integers, Sequences, FiniteSets, TLC

VARIABLES
    fin,        \* Data Filter: the input list
    fop,        \* Data Filter: the operation applied ("none" before any)
    fhours,     \* Data Filter: the hours argument of the operation
    fres,       \* Data Filter: the operation's outcome, Ok(list) or Raised
    tin,        \* Trend Finder: the input list of records
    top,        \* Trend Finder: the last operation applied
    tfound,     \* Trend Finder: the outcome of find_trends
    trelevant,  \* Trend Finder: the outcome of filter_relevant_trends
    sin,        \* Trend Scorer: the input list of trends
    sop,        \* Trend Scorer: the last operation applied
    sres,       \* Trend Scorer: the outcome of score_trends
    ain,        \* AI Analyzer: the input list of records
    aop,        \* AI Analyzer: the last operation applied
    abatch,     \* AI Analyzer: the batch_size argument
    aresults,   \* AI Analyzer: what _analyze_single yields, per record
    ares,       \* AI Analyzer: the outcome of analyze_batch
    args,               \* run: entry point, vertical, hours, use_ai
    pc,                 \* run: the statement the run is at
    collector_i,        \* run: position of the loop over collectors
    status,             \* run: per collector, the state of its collect
    calls,              \* run: per collector, the number of collect calls
    outputs,            \* run: per collector, what collect gave
    run_raw_data,       \* run: raw_data
    run_filtered_data,  \* run: filtered_data
    ai_results,         \* run: what _analyze_single yielded, per record
    run_analyzed_data,  \* run: analyzed_data
    run_use_ai,         \* run: the use_ai_analysis argument of find_trends
    run_trends,         \* run: trends
    run_scored_trends,  \* run: scored_trends
    run_top_3,          \* run: top_3_trends
    invoked,            \* run: the components called so far
    returned,           \* run: "none", "empty" ([]) or "result"
    vin,         \* Viral Content Filter: the input list
    vop,         \* Viral Content Filter: the operation applied
    vvertical,   \* Viral Content Filter: the vertical argument
    vmin,        \* Viral Content Filter: the min_engagement argument
    vres,        \* Viral Content Filter: the outcome, Ok(list) or Raised
    gin,         \* geography: the location argument
    gop,         \* geography: the operation applied
    gres,        \* geography: the geo code returned
    t_store,     \* Usage Tracker: the usage file on disk
    t_created,   \* Usage Tracker: whether the singleton tracker exists
    t_data,      \* Usage Tracker: the tracker's in-memory data
    t_loaded,    \* Usage Tracker: the data as loaded at creation
    t_day,       \* Usage Tracker: the calendar day
    t_calls,     \* Usage Tracker: the number of tracking calls made
    t_log,       \* Usage Tracker: the events tracked, in order
    t_res,       \* Usage Tracker: the outcome of the last tracking call
    t_stage,     \* Usage Tracker: the stage of the pipeline run
    t_focus,     \* Usage Tracker: the service a long run exercises
    k_settings,  \* collectors: the credentials of the settings
    k_clients,   \* collectors: the client of each collector
    k_i,         \* collectors: the collector whose turn it is
    k_out,       \* collectors: what each collect returned
    k_ext,       \* collectors: the external calls of each collect
    k_tracked,   \* collectors: the tracking calls of each collect
    k_raw,       \* collectors: raw_data
    d_inputs,    \* Dashboard: the values of the sidebar widgets
    d_flag,      \* Dashboard: session_state.run_pipeline
    d_results,   \* Dashboard: session_state.results
    d_render,    \* Dashboard: the kind of the last render
    d_ran,       \* Dashboard: whether the last render executed the pipeline
    d_before,    \* Dashboard: session_state.results before the last render
    d_returned,  \* Dashboard: what the last pipeline run returned
    d_shown,     \* Dashboard: the results the last render displayed
    d_rerun,     \* Dashboard: whether st.rerun() asked for a render
    d_runs,      \* Dashboard: the number of pipeline runs
    r_store,     \* AI Analyzer, one record: the usage file the tracker was loaded from
    r_max,       \* AI Analyzer, one record: the max_retries argument
    r_attempt,   \* AI Analyzer, one record: the loop variable attempt
    r_pc,        \* AI Analyzer, one record: where the call stands: "off", "call", "sleep" or "done"
    r_calls,     \* AI Analyzer, one record: the model calls made
    r_good,      \* AI Analyzer, one record: the model calls that returned a message
    r_tracked,   \* AI Analyzer, one record: the calls of track_claude_request
    r_waits,     \* AI Analyzer, one record: the waits slept, in order
    r_last,      \* AI Analyzer, one record: what the latest model call did
    r_res,       \* AI Analyzer, one record: the outcome of the call
    q_data,      \* AI Analyzer, batches: the data argument
    q_size,      \* AI Analyzer, batches: the batch_size argument
    q_pc,        \* AI Analyzer, batches: where analyze_batch stands: "off", "loop", "gather" or "done"
    q_first,     \* AI Analyzer, batches: the index in data of the first record of the current batch
    q_submitted, \* AI Analyzer, batches: the indices of the records handed to _analyze_single
    q_results,   \* AI Analyzer, batches: per record, what _analyze_single gave or Pending
    q_analyzed,  \* AI Analyzer, batches: analyzed_data
    q_ret,       \* AI Analyzer, batches: what analyze_batch returned
    u_today,     \* Usage Tracker queries: what the latest get_today_cost() gave
    u_day        \* Usage Tracker queries: the day of that call

filterVars == <<fin, fop, fhours, fres>>
finderVars == <<tin, top, tfound, trelevant>>
scorerVars == <<sin, sop, sres>>
analyzerVars == <<ain, aop, abatch, aresults, ares>>
pipeVars ==
    <<args, pc, collector_i, status, calls, outputs, run_raw_data,
      run_filtered_data, ai_results, run_analyzed_data, run_use_ai,
      run_trends, run_scored_trends, run_top_3, invoked, returned>>

viralVars ==
    <<vin, vop, vvertical, vmin, vres>>
geoVars ==
    <<gin, gop, gres>>
trackerVars ==
    <<t_store, t_created, t_data, t_loaded, t_day, t_calls, t_log, t_res,
      t_stage, t_focus>>
credVars ==
    <<k_settings, k_clients, k_i, k_out, k_ext, k_tracked, k_raw>>
dashVars ==
    <<d_inputs, d_flag, d_results, d_render, d_ran, d_before, d_returned,
      d_shown, d_rerun, d_runs>>
singleVars ==
    <<r_store, r_max, r_attempt, r_pc, r_calls, r_good, r_tracked, r_waits,
      r_last, r_res>>
batchVars ==
    <<q_data, q_size, q_pc, q_first, q_submitted, q_results, q_analyzed,
      q_ret>>
costVars ==
    <<u_today, u_day>>

coreVars == <<filterVars, finderVars, scorerVars, analyzerVars, pipeVars>>

\* the components modelled beside the pipeline and its analyzers
extVars ==
    <<viralVars, geoVars, trackerVars, credVars, dashVars, singleVars,
      batchVars, costVars>>

\* all variables but those of one of these components
notViralVars ==
    <<coreVars, geoVars, trackerVars, credVars, dashVars, singleVars,
      batchVars, costVars>>
notGeoVars ==
    <<coreVars, viralVars, trackerVars, credVars, dashVars, singleVars,
      batchVars, costVars>>
notTrackerVars ==
    <<coreVars, viralVars, geoVars, credVars, dashVars, singleVars,
      batchVars, costVars>>
notCredVars ==
    <<coreVars, viralVars, geoVars, trackerVars, dashVars, singleVars,
      batchVars, costVars>>
notDashVars ==
    <<coreVars, viralVars, geoVars, trackerVars, credVars, singleVars,
      batchVars, costVars>>
notSingleVars ==
    <<coreVars, viralVars, geoVars, trackerVars, credVars, dashVars,
      batchVars, costVars>>
notBatchVars ==
    <<coreVars, viralVars, geoVars, trackerVars, credVars, dashVars,
      singleVars, costVars>>
notCostVars ==
    <<coreVars, viralVars, geoVars, trackerVars, credVars, dashVars,
      singleVars, batchVars>>

vars == <<coreVars, extVars>>

(***************************************************************************)
(* Bounds of the model                                                     *)
(***************************************************************************)
MaxLen == 3         \* longest input list of the Data Filter specification
MaxFinderLen == 3   \* longest input list of the Trend Finder specification
MaxScorePosts == 3  \* most posts of a trend of the Trend Scorer specification
MaxBatchLen == 3    \* longest input list of the AI Analyzer specification
MaxRaw == 3         \* most records the collectors of one run return in all
MaxViralLen == 2    \* longest input list of the Viral Content Filter spec.

(***************************************************************************)
(* Generic helpers                                                         *)
(***************************************************************************)
Min(a, b) == IF a <= b THEN a ELSE b
Max(a, b) == IF a >= b THEN a ELSE b

Ok(v) == [raised |-> FALSE, val |-> v]
Raised == [raised |-> TRUE, val |-> <<>>]

SeqsUpTo(S, n) == UNION {[1..k -> S] : k \in 0..n}

\* s[i:i+1]
Ch(s, i) == SubSeq(s, i, i)

\* s[:n]
Prefix(s, n) == SubSeq(s, 1, Min(n, Len(s)))

\* s[i-1:] for a 1-based i
From(s, i) == SubSeq(s, i, Len(s))

\* sub == s[i-1 : i-1+len(sub)]
MatchAt(s, i, sub) ==
    /\ i + Len(sub) - 1 <= Len(s)
    /\ SubSeq(s, i, i + Len(sub) - 1) = sub

\* Python's "sub in s"
Contains(s, sub) == \E i \in 1..(Len(s) + 1) : MatchAt(s, i, sub)

UpperAlpha == "ABCDEFGHIJKLMNOPQRSTUVWXYZ"
LowerAlpha == "abcdefghijklmnopqrstuvwxyz"
Digits == "0123456789"

UpperSet == {Ch(UpperAlpha, i) : i \in 1..26}
LowerSet == {Ch(LowerAlpha, i) : i \in 1..26}
DigitSet == {Ch(Digits, i) : i \in 1..10}
ToLower == [c \in UpperSet |->
               Ch(LowerAlpha, CHOOSE i \in 1..26 : Ch(UpperAlpha, i) = c)]
ToUpper == [c \in LowerSet |->
               Ch(UpperAlpha, CHOOSE i \in 1..26 : Ch(LowerAlpha, i) = c)]

IsUpper(c) == c \in UpperSet
IsLower(c) == c \in LowerSet
IsDigit(c) == c \in DigitSet
IsSpace(c) == c \in {" ", "\t", "\n", "\r"}
\* the regular expression class \w
IsWordChar(c) == IsUpper(c) \/ IsLower(c) \/ IsDigit(c) \/ c = "_"

LowerChar(c) == IF IsUpper(c) THEN ToLower[c] ELSE c
UpperChar(c) == IF IsLower(c) THEN ToUpper[c] ELSE c

\* str.lower()
RECURSIVE Lower(_)
Lower(s) == IF s = "" THEN "" ELSE LowerChar(Head(s)) \o Lower(Tail(s))

\* str.lstrip() / str.rstrip() / str.strip()
RECURSIVE LStrip(_)
LStrip(s) == IF s /= "" /\ IsSpace(Head(s)) THEN LStrip(Tail(s)) ELSE s

RECURSIVE RStrip(_)
RStrip(s) ==
    IF s /= "" /\ IsSpace(Ch(s, Len(s)))
    THEN RStrip(SubSeq(s, 1, Len(s) - 1))
    ELSE s

Strip(s) == RStrip(LStrip(s))

(***************************************************************************)
(* Post Records                                                            *)
(***************************************************************************)
\* posted_at: k = "missing" (no such key), "none" (None), "dt" (naive
\* datetime), "dtz" (timezone-aware datetime, as the YouTube collector
\* builds from publishedAt), "str" (ISO string without offset), "strz" (ISO
\* string with an offset or Z), "badstr" (a string fromisoformat rejects),
\* "num" (neither None, str nor datetime).  h is the time in hours from now.
NoDate == [k |-> "none", h |-> 0]
MissingDate == [k |-> "missing", h |-> 0]
At(h) == [k |-> "dt", h |-> h]
AtAware(h) == [k |-> "dtz", h |-> h]
IsoStr(h) == [k |-> "str", h |-> h]
IsoStrZ(h) == [k |-> "strz", h |-> h]
BadStr == [k |-> "badstr", h |-> 0]
NumStamp(h) == [k |-> "num", h |-> h]

\* interest_score: k = "missing" or "int"
NoInterest == [k |-> "missing", v |-> 0]
Interest(v) == [k |-> "int", v |-> v]

\* ai_analysis: k = "missing" (no such key), "none" (None), "dict" (the
\* five-field object), "junk" (a parsed JSON value that is not an object)
NoAnalysis ==
    [k |-> "missing", item_name |-> "", category |-> "", sentiment |-> "",
     viral_potential |-> 0, restaurant_applicable |-> FALSE]

\* numeric = FALSE stands for a views/likes/comments/shares value that
\* int() rejects
Post(platform, post_id, content, views, likes, comments, shares, posted_at) ==
    [platform |-> platform, post_id |-> post_id, content |-> content,
     views |-> views, likes |-> likes, comments |-> comments,
     shares |-> shares, numeric |-> TRUE, posted_at |-> posted_at,
     collected_at |-> MissingDate, interest_score |-> NoInterest,
     ai_analysis |-> NoAnalysis, ai_error |-> FALSE]

(***************************************************************************)
(* config/verticals.py                                                     *)
(***************************************************************************)
CoffeeKeywords ==
    <<"coffee", "latte", "espresso", "cappuccino", "cold brew",
      "iced coffee", "coffee shop", "barista", "coffee drink",
      "specialty coffee">>

RestaurantKeywords ==
    <<"restaurant", "food", "recipe", "cooking", "chef", "menu", "dining",
      "cuisine", "dish", "meal">>

BarbershopKeywords ==
    <<"barbershop", "haircut", "barber", "hairstyle", "men's hair", "fade",
      "beard", "grooming", "haircut style">>

get_vertical_keywords(vertical) ==
    CASE Lower(vertical) = "coffee" -> CoffeeKeywords
      [] Lower(vertical) = "restaurant" -> RestaurantKeywords
      [] Lower(vertical) = "barbershop" -> BarbershopKeywords
      [] OTHER -> CoffeeKeywords

(***************************************************************************)
(* analyzers/data_filter.py                                                *)
(***************************************************************************)
DedupKeyLen == 50

\* a key that leaves the platform out: records of different platforms with
\* the same post_id would count as duplicates
DedupKeyNoPlatform(item) ==
    IF item.post_id = ""
    THEN <<Prefix(item.content, DedupKeyLen)>>
    ELSE <<item.post_id>>

\* the key of the loop body of _remove_duplicates
DedupKey(item) ==
    IF item.post_id = ""
    THEN <<item.platform, Prefix(item.content, DedupKeyLen)>>
    ELSE <<item.platform, item.post_id>>

RECURSIVE RemoveDupLoop(_, _)
RemoveDupLoop(data, seen) ==
    IF data = <<>> THEN <<>>
    ELSE IF DedupKey(Head(data)) \notin seen
         THEN <<Head(data)>> \o
              RemoveDupLoop(Tail(data), seen \cup {DedupKey(Head(data))})
         ELSE RemoveDupLoop(Tail(data), seen)

remove_duplicates(data) == RemoveDupLoop(data, {})

\* one item of _normalize_format: the extension fields are copied, every
\* other field (ai_analysis, ai_error) is left behind
NormalizeItem(item) ==
    [item EXCEPT !.posted_at = IF item.posted_at.k = "missing"
                               THEN At(0) ELSE item.posted_at,
                 !.collected_at = At(0),
                 !.ai_analysis = NoAnalysis,
                 !.ai_error = FALSE]

RECURSIVE normalize_format(_)
normalize_format(data) ==
    IF data = <<>> THEN <<>>
    ELSE IF Head(data).numeric
         THEN <<NormalizeItem(Head(data))>> \o normalize_format(Tail(data))
         ELSE normalize_format(Tail(data))

\* the decision of the loop body of _filter_by_date for one item:
\* "keep", "drop" or "raise" (an aware datetime compared with the naive
\* cutoff_time is a TypeError)
DateVerdict(item, hours) ==
    LET p == item.posted_at
        cutoff_time == 0 - hours
    IN  IF item.platform = "googletrends" THEN "keep"
        ELSE IF p.k = "none" THEN "keep"
        ELSE IF p.k = "badstr" THEN "keep"
        ELSE IF p.k \in {"dtz", "strz"} THEN "raise"
        ELSE IF p.k \in {"dt", "str"}
             THEN IF p.h >= cutoff_time THEN "keep"
                  ELSE IF p.h > 0 THEN "keep"
                  ELSE "drop"
        ELSE "keep"

RECURSIVE DateLoop(_, _)
DateLoop(data, hours) ==
    IF data = <<>> THEN Ok(<<>>)
    ELSE LET v == DateVerdict(Head(data), hours)
             rest == DateLoop(Tail(data), hours)
         IN  IF v = "raise" \/ rest.raised THEN Raised
             ELSE IF v = "keep" THEN Ok(<<Head(data)>> \o rest.val)
             ELSE rest

filter_by_date(data, hours) ==
    IF hours <= 0 THEN Ok(data) ELSE DateLoop(data, hours)

\* any(keyword in content for keyword in keywords_lower)
AnyKeywordIn(content, keywords_lower) ==
    \E i \in 1..Len(keywords_lower) : Contains(content, keywords_lower[i])

RECURSIVE VerticalLoop(_, _)
VerticalLoop(data, keywords_lower) ==
    IF data = <<>> THEN <<>>
    ELSE LET content == Lower(Head(data).content)
         IN  IF \/ AnyKeywordIn(content, keywords_lower)
                \/ Head(data).platform = "google_trends"
             THEN <<Head(data)>> \o VerticalLoop(Tail(data), keywords_lower)
             ELSE VerticalLoop(Tail(data), keywords_lower)

filter_by_vertical(data, vertical) ==
    LET keywords == get_vertical_keywords(vertical)
        keywords_lower == [i \in 1..Len(keywords) |-> Lower(keywords[i])]
    IN  VerticalLoop(data, keywords_lower)

RECURSIVE remove_empty_posts(_)
remove_empty_posts(data) ==
    IF data = <<>> THEN <<>>
    ELSE LET item == Head(data)
             keep == IF item.platform = "googletrends"
                     THEN (IF item.interest_score.k = "int"
                           THEN item.interest_score.v ELSE 0) > 0
                     ELSE item.views > 0 \/ item.likes > 0
         IN  IF keep THEN <<item>> \o remove_empty_posts(Tail(data))
             ELSE remove_empty_posts(Tail(data))

filter_and_normalize(raw_data, vertical, hours) ==
    LET unique_data == remove_duplicates(raw_data)
        normalized_data == normalize_format(unique_data)
        time_filtered == filter_by_date(normalized_data, hours)
    IN  IF time_filtered.raised THEN Raised
        ELSE Ok(remove_empty_posts(
                    filter_by_vertical(time_filtered.val, vertical)))

(***************************************************************************)
(* analyzers/trend_finder.py                                               *)
(***************************************************************************)
\* Python's None in a field that otherwise holds text
PyNone == "<None>"

\* an AI Analysis Result attached to a record
Analysis(item_name, category, sentiment, viral_potential, applicable) ==
    [k |-> "dict", item_name |-> item_name, category |-> category,
     sentiment |-> sentiment, viral_potential |-> viral_potential,
     restaurant_applicable |-> applicable]

NoneAnalysis == [NoAnalysis EXCEPT !.k = "none"]

\* the regular expression assertion \b before s[i]
WordBoundary(s, i) ==
    LET before == i > 1 /\ IsWordChar(Ch(s, i - 1))
        after == i <= Len(s) /\ IsWordChar(Ch(s, i))
    IN  before /= after

\* the length of the run of whitespace that starts at s[i]
RECURSIVE SpaceRun(_, _)
SpaceRun(s, i) ==
    IF i <= Len(s) /\ IsSpace(Ch(s, i)) THEN 1 + SpaceRun(s, i + 1) ELSE 0

\* the length of the run of [a-z] that starts at s[i]
RECURSIVE LowerRun(_, _)
LowerRun(s, i) ==
    IF i <= Len(s) /\ IsLower(Ch(s, i)) THEN 1 + LowerRun(s, i + 1) ELSE 0

\* the first alternative of alts (in order) that matches at s[i] and
\* satisfies Follow(end), where end is the position after it; 0 if none
FirstAlt(s, i, alts, Follow(_)) ==
    LET ok == {n \in 1..Len(alts) :
                 MatchAt(s, i, alts[n]) /\ Follow(i + Len(alts[n]))}
    IN  IF ok = {} THEN 0 ELSE CHOOSE n \in ok : \A m \in ok : n <= m

Articles == <<"the", "a", "an">>

\* the length of the match of \b(the|a|an)\s+ at s[i], 0 if it does not match
ArticleMatch(s, i) ==
    LET HasSpace(e) == SpaceRun(s, e) >= 1
        n == IF WordBoundary(s, i) THEN FirstAlt(s, i, Articles, HasSpace)
             ELSE 0
    IN  IF n = 0 THEN 0
        ELSE Len(Articles[n]) + SpaceRun(s, i + Len(Articles[n]))

\* re.sub(r'\b(the|a|an)\s+', '', s), scanning from s[i]
RECURSIVE SubArticles(_, _)
SubArticles(s, i) ==
    IF i > Len(s) THEN ""
    ELSE LET m == ArticleMatch(s, i)
         IN  IF m > 0 THEN SubArticles(s, i + m)
             ELSE Ch(s, i) \o SubArticles(s, i + 1)

\* re.sub(r'\s+', ' ', s), scanning from s[i]
RECURSIVE SubSpaces(_, _)
SubSpaces(s, i) ==
    IF i > Len(s) THEN ""
    ELSE LET m == SpaceRun(s, i)
         IN  IF m > 0 THEN " " \o SubSpaces(s, i + m)
             ELSE Ch(s, i) \o SubSpaces(s, i + 1)

\* a normalisation that keeps the articles: "the lavender latte" and
\* "lavender latte" would stay two names
normalize_keep_articles(name) ==
    IF name = "" \/ name = PyNone THEN ""
    ELSE Strip(SubSpaces(Strip(Lower(name)), 1))

normalize_trend_name(name) ==
    IF name = "" \/ name = PyNone THEN ""
    ELSE Strip(SubSpaces(SubArticles(Strip(Lower(name)), 1), 1))

\* str.title()
RECURSIVE TitleFrom(_, _)
TitleFrom(s, i) ==
    IF i > Len(s) THEN ""
    ELSE LET c == Ch(s, i)
             inWord == i > 1 /\ (IsUpper(Ch(s, i - 1)) \/ IsLower(Ch(s, i - 1)))
         IN  (IF inWord THEN LowerChar(c) ELSE UpperChar(c))
                 \o TitleFrom(s, i + 1)

Title(s) == TitleFrom(s, 1)

\* a new entry of trends_dict
NewTrend(trend_name, normalized_name, category, sentiment, viral_potential) ==
    [trend_name |-> trend_name, normalized_name |-> normalized_name,
     category |-> category, sentiment |-> sentiment,
     viral_potential |-> viral_potential, posts |-> <<>>, platforms |-> {},
     total_views |-> 0, total_likes |-> 0, total_comments |-> 0,
     total_shares |-> 0]

\* "add the post to the trend"
AddPost(trend, item) ==
    [trend EXCEPT !.posts = Append(@, item),
                  !.platforms = @ \cup {item.platform},
                  !.total_views = @ + item.views,
                  !.total_likes = @ + item.likes,
                  !.total_comments = @ + item.comments,
                  !.total_shares = @ + item.shares]

\* trends_dict is the sequence of its values in insertion order; the index
\* of the entry with this key, 0 if there is none
DictIndex(trends_dict, normalized_name) ==
    LET hit == {n \in 1..Len(trends_dict) :
                  trends_dict[n].normalized_name = normalized_name}
    IN  IF hit = {} THEN 0 ELSE CHOOSE n \in hit : TRUE

\* trends_dict after "create if new, then add the post"
DictAdd(trends_dict, fresh, item) ==
    LET n == DictIndex(trends_dict, fresh.normalized_name)
    IN  IF n = 0 THEN Append(trends_dict, AddPost(fresh, item))
        ELSE [trends_dict EXCEPT ![n] = AddPost(@, item)]

RECURSIVE ExtractAiLoop(_, _)
ExtractAiLoop(data, trends_dict) ==
    IF data = <<>> THEN Ok(trends_dict)
    ELSE LET item == Head(data)
             ai_analysis == item.ai_analysis
         IN  IF ai_analysis.k \in {"missing", "none"}
             THEN ExtractAiLoop(Tail(data), trends_dict)
             ELSE IF ai_analysis.k /= "dict" THEN Raised
             ELSE IF ~ai_analysis.restaurant_applicable
             THEN ExtractAiLoop(Tail(data), trends_dict)
             ELSE IF ai_analysis.item_name \in {"", PyNone}
             THEN ExtractAiLoop(Tail(data), trends_dict)
             ELSE ExtractAiLoop(Tail(data),
                      DictAdd(trends_dict,
                              NewTrend(ai_analysis.item_name,
                                  normalize_trend_name(ai_analysis.item_name),
                                  ai_analysis.category, ai_analysis.sentiment,
                                  ai_analysis.viral_potential),
                              item))

extract_from_ai_analysis(data) == ExtractAiLoop(data, <<>>)

DrinkWords ==
    <<"latte", "coffee", "espresso", "cappuccino", "mocha", "frappe",
      "smoothie", "juice", "tea", "drink">>
TemperatureWords == <<"cold", "iced", "hot", "warm">>
ToppingWords == <<"milk", "cream", "syrup", "sauce">>

NoMatch == [len |-> 0, name |-> ""]

\* the match of \b([a-z]+)\s+(alts)\b at s[i]: its length and the two
\* groups joined by a space
MatchWordThenAlt(s, i, alts) ==
    LET n1 == LowerRun(s, i)
        sp == SpaceRun(s, i + n1)
        j == i + n1 + sp
        AtBoundary(e) == WordBoundary(s, e)
        a == IF WordBoundary(s, i) /\ n1 >= 1 /\ sp >= 1
             THEN FirstAlt(s, j, alts, AtBoundary) ELSE 0
    IN  IF a = 0 THEN NoMatch
        ELSE [len |-> n1 + sp + Len(alts[a]),
              name |-> SubSeq(s, i, i + n1 - 1) \o " " \o alts[a]]

\* the match of \b(alts)\s+([a-z]+)\b at s[i]
MatchAltThenWord(s, i, alts) ==
    LET HasSpace(e) == SpaceRun(s, e) >= 1
        a == IF WordBoundary(s, i) THEN FirstAlt(s, i, alts, HasSpace) ELSE 0
        sp == SpaceRun(s, i + Len(alts[a]))
        j == i + Len(alts[a]) + sp
        n2 == LowerRun(s, j)
    IN  IF a = 0 THEN NoMatch
        ELSE IF n2 >= 1 /\ WordBoundary(s, j + n2)
             THEN [len |-> Len(alts[a]) + sp + n2,
                   name |-> alts[a] \o " " \o SubSeq(s, j, j + n2 - 1)]
             ELSE NoMatch

\* the match at s[i] of the p-th of trend_patterns
PatternMatch(s, i, p) ==
    CASE p = 1 -> MatchWordThenAlt(s, i, DrinkWords)
      [] p = 2 -> MatchAltThenWord(s, i, TemperatureWords)
      [] p = 3 -> MatchWordThenAlt(s, i, ToppingWords)

\* re.findall: the non-overlapping matches of one pattern, left to right
RECURSIVE FindAll(_, _, _)
FindAll(s, i, p) ==
    IF i > Len(s) THEN <<>>
    ELSE LET m == PatternMatch(s, i, p)
         IN  IF m.len > 0 THEN <<m.name>> \o FindAll(s, i + m.len, p)
             ELSE FindAll(s, i + 1, p)

\* "skip too short or generic phrases"
RECURSIVE KeepTrendNames(_)
KeepTrendNames(names) ==
    IF names = <<>> THEN <<>>
    ELSE LET trend_name == Strip(Head(names))
         IN  IF Len(trend_name) > 5
                /\ trend_name \notin {"the coffee", "a coffee", "some"}
             THEN <<trend_name>> \o KeepTrendNames(Tail(names))
             ELSE KeepTrendNames(Tail(names))

\* found_trends of one record: the matches of the three patterns in turn
FoundTrends(content) ==
    KeepTrendNames(FindAll(content, 1, 1) \o FindAll(content, 1, 2)
                       \o FindAll(content, 1, 3))

RECURSIVE AddFound(_, _, _)
AddFound(trends_dict, found_trends, item) ==
    IF found_trends = <<>> THEN trends_dict
    ELSE LET trend_name == Head(found_trends)
         IN  AddFound(DictAdd(trends_dict,
                              NewTrend(Title(trend_name),
                                       normalize_trend_name(trend_name),
                                       "unknown", "neutral", 5),
                              item),
                      Tail(found_trends), item)

RECURSIVE ExtractTextLoop(_, _)
ExtractTextLoop(data, trends_dict) ==
    IF data = <<>> THEN trends_dict
    ELSE ExtractTextLoop(Tail(data),
             AddFound(trends_dict, FoundTrends(Lower(Head(data).content)),
                      Head(data)))

extract_from_text(data) == ExtractTextLoop(data, <<>>)

\* difflib: the length of the common run of a from i and b from j, within
\* a[..ahi] and b[..bhi]
RECURSIVE CommonRun(_, _, _, _, _, _)
CommonRun(a, i, ahi, b, j, bhi) ==
    IF i <= ahi /\ j <= bhi /\ Ch(a, i) = Ch(b, j)
    THEN 1 + CommonRun(a, i + 1, ahi, b, j + 1, bhi)
    ELSE 0

\* SequenceMatcher.find_longest_match on a[alo..ahi], b[blo..bhi]: the
\* longest block, the earliest in a among the longest, the earliest in b
\* among those
find_longest_match(a, alo, ahi, b, blo, bhi) ==
    LET runs == {<<i, j, CommonRun(a, i, ahi, b, j, bhi)>> :
                    i \in alo..ahi, j \in blo..bhi}
        Better(x, y) ==
            \/ x[3] > y[3]
            \/ x[3] = y[3] /\ x[1] < y[1]
            \/ x[3] = y[3] /\ x[1] = y[1] /\ x[2] <= y[2]
    IN  IF runs = {} THEN <<alo, blo, 0>>
        ELSE CHOOSE x \in runs : \A y \in runs : Better(x, y)

\* the sum of the sizes of SequenceMatcher.get_matching_blocks
RECURSIVE MatchingSize(_, _, _, _, _, _)
MatchingSize(a, alo, ahi, b, blo, bhi) ==
    LET x == find_longest_match(a, alo, ahi, b, blo, bhi)
    IN  IF x[3] = 0 THEN 0
        ELSE x[3]
             + MatchingSize(a, alo, x[1] - 1, b, blo, x[2] - 1)
             + MatchingSize(a, x[1] + x[3], ahi, b, x[2] + x[3], bhi)

\* a similarity is the fraction num / den
Frac(num, den) == [num |-> num, den |-> den]
FracGeq(x, y) == x.num * y.den >= y.num * x.den

\* SequenceMatcher(None, a, b).ratio()
SequenceRatio(a, b) ==
    IF Len(a) + Len(b) = 0 THEN Frac(1, 1)
    ELSE Frac(2 * MatchingSize(a, 1, Len(a), b, 1, Len(b)), Len(a) + Len(b))

SIMILARITY_THRESHOLD == Frac(7, 10)

calculate_similarity(name1, name2) ==
    IF name1 = "" \/ name2 = "" THEN Frac(0, 1)
    ELSE IF name1 = name2 THEN Frac(1, 1)
    ELSE IF Contains(name2, name1) \/ Contains(name1, name2) THEN Frac(9, 10)
    ELSE SequenceRatio(name1, name2)

\* the merged trend is named after the head of the group
MainTrendHead(trends) == trends[1]

\* the first trend of the group with the most posts
MainTrend(trends) ==
    LET most == {n \in 1..Len(trends) :
                   \A m \in 1..Len(trends) :
                       Len(trends[n].posts) >= Len(trends[m].posts)}
    IN  trends[CHOOSE n \in most : \A m \in most : n <= m]

RECURSIVE MergeInto(_, _)
MergeInto(acc, trends) ==
    IF trends = <<>> THEN acc
    ELSE LET trend == Head(trends)
         IN  MergeInto([acc EXCEPT
                          !.posts = @ \o trend.posts,
                          !.platforms = @ \cup trend.platforms,
                          !.total_views = @ + trend.total_views,
                          !.total_likes = @ + trend.total_likes,
                          !.total_comments = @ + trend.total_comments,
                          !.total_shares = @ + trend.total_shares,
                          !.viral_potential = Max(@, trend.viral_potential)],
                       Tail(trends))

merge_trends(trends) ==
    IF Len(trends) = 1 THEN trends[1]
    ELSE LET main_trend == MainTrend(trends)
         IN  MergeInto(NewTrend(main_trend.trend_name,
                                main_trend.normalized_name,
                                main_trend.category, main_trend.sentiment,
                                trends[1].viral_potential),
                       trends)

\* the indices of the group opened by trends[i]: i and every later index
\* not yet used whose name is similar to that of trends[i]
GroupOf(trends, i, used) ==
    {i} \cup {j \in (i + 1)..Len(trends) :
                /\ j \notin used
                /\ FracGeq(calculate_similarity(trends[i].normalized_name,
                                                trends[j].normalized_name),
                           SIMILARITY_THRESHOLD)}

\* the members of a set of indices, in list order
RECURSIVE Pick(_, _, _)
Pick(trends, idx, n) ==
    IF n > Len(trends) THEN <<>>
    ELSE (IF n \in idx THEN <<trends[n]>> ELSE <<>>) \o Pick(trends, idx, n + 1)

RECURSIVE GroupLoop(_, _, _)
GroupLoop(trends, i, used) ==
    IF i > Len(trends) THEN <<>>
    ELSE IF i \in used THEN GroupLoop(trends, i + 1, used)
    ELSE LET group == GroupOf(trends, i, used)
         IN  <<merge_trends(Pick(trends, group, 1))>>
                 \o GroupLoop(trends, i + 1, used \cup group)

group_similar_trends(trends) == GroupLoop(trends, 1, {})

find_trends(data, use_ai_analysis) ==
    LET trends == IF use_ai_analysis THEN extract_from_ai_analysis(data)
                  ELSE Ok(extract_from_text(data))
    IN  IF trends.raised THEN Raised
        ELSE Ok(group_similar_trends(trends.val))

\* the verdict of the loop body of filter_relevant_trends for one trend:
\* "keep", "drop" or "raise" (category None has no lower())
RelevantVerdict(trend, vertical, min_posts) ==
    IF Len(trend.posts) < min_posts THEN "drop"
    ELSE IF trend.category = PyNone THEN "raise"
    ELSE LET category == Lower(trend.category)
         IN  IF /\ vertical = "coffee"
                /\ ~Contains(category, "drink")
                /\ category /= "unknown"
                /\ (Contains(category, "pastry")
                      \/ Contains(category, "main_dish"))
             THEN "drop"
             ELSE "keep"

RECURSIVE filter_relevant_trends(_, _, _)
filter_relevant_trends(trends, vertical, min_posts) ==
    IF trends = <<>> THEN Ok(<<>>)
    ELSE LET v == RelevantVerdict(Head(trends), vertical, min_posts)
             rest == filter_relevant_trends(Tail(trends), vertical, min_posts)
         IN  IF v = "raise" \/ rest.raised THEN Raised
             ELSE IF v = "keep" THEN Ok(<<Head(trends)>> \o rest.val)
             ELSE rest

(***************************************************************************)
(* Arithmetic of the Trend Scorer.  A score is a fraction num / den of     *)
(* integers (den > 0); the product of the five numerator components        *)
(* exceeds the integer range, so it is carried as a natural number in      *)
(* limbs of four decimal digits, least significant first.  A score         *)
(* attached to a trend is in hundredths, as round(x, 2) leaves it.  A      *)
(* logarithm is taken to five decimal places.                              *)
(***************************************************************************)
Limb == 10000

\* the largest factor or divisor one limb step takes without overflow
MaxFactor == 200000

BigFromInt(n) ==
    IF n = 0 THEN <<>>
    ELSE IF n < Limb THEN <<n>>
    ELSE IF n < Limb * Limb THEN <<n % Limb, n \div Limb>>
    ELSE <<n % Limb, (n \div Limb) % Limb, n \div (Limb * Limb)>>

\* drop the leading zeros (the last limbs of the sequence)
RECURSIVE BigTrim(_)
BigTrim(b) ==
    IF b /= <<>> /\ b[Len(b)] = 0 THEN BigTrim(SubSeq(b, 1, Len(b) - 1)) ELSE b

RECURSIVE BigMulCarry(_, _, _, _)
BigMulCarry(b, i, m, carry) ==
    IF i > Len(b) THEN BigFromInt(carry)
    ELSE LET x == b[i] * m + carry
         IN  <<x % Limb>> \o BigMulCarry(b, i + 1, m, x \div Limb)

BigMulSmall(b, m) == BigTrim(BigMulCarry(b, 1, m, 0))

RECURSIVE BigAddCarry(_, _, _, _)
BigAddCarry(a, b, i, carry) ==
    IF i > Len(a) /\ i > Len(b) THEN BigFromInt(carry)
    ELSE LET x == (IF i <= Len(a) THEN a[i] ELSE 0)
                  + (IF i <= Len(b) THEN b[i] ELSE 0) + carry
         IN  <<x % Limb>> \o BigAddCarry(a, b, i + 1, x \div Limb)

BigAdd(a, b) == BigAddCarry(a, b, 1, 0)

\* b * m for any natural m: a factor above MaxFactor is taken limb by limb
RECURSIVE BigMulInt(_, _)
BigMulInt(b, m) ==
    IF m <= MaxFactor THEN BigMulSmall(b, m)
    ELSE BigAdd(BigTrim(<<0>> \o BigMulInt(b, m \div Limb)),
                BigMulSmall(b, m % Limb))

\* the limbs b[1..i] of the quotient, given the remainder of the limbs
\* above i
RECURSIVE BigDivFrom(_, _, _, _)
BigDivFrom(b, i, d, rem) ==
    IF i = 0 THEN <<>>
    ELSE LET cur == rem * Limb + b[i]
         IN  BigDivFrom(b, i - 1, d, cur % d) \o <<cur \div d>>

BigDivSmall(b, d) == BigTrim(BigDivFrom(b, Len(b), d, 0))

\* b times every ms[i], i >= k; the running product is computed before the
\* next factor is taken
RECURSIVE BigMulAll(_, _, _)
BigMulAll(b, ms, k) ==
    IF k > Len(ms) THEN b
    ELSE LET next == BigMulInt(b, ms[k])
         IN  IF Len(next) >= 0 THEN BigMulAll(next, ms, k + 1) ELSE next

\* b divided (floor) by every ds[i], i >= k, in turn
RECURSIVE BigDivAll(_, _, _)
BigDivAll(b, ds, k) ==
    IF k > Len(ds) THEN b
    ELSE LET next == BigDivSmall(b, ds[k])
         IN  IF Len(next) >= 0 THEN BigDivAll(next, ds, k + 1) ELSE next

\* the value of b, or Saturated when it has more than two limbs
Saturated == 100000000
BigToInt(b) ==
    IF Len(b) > 2 THEN Saturated
    ELSE IF Len(b) = 2 THEN b[1] + Limb * b[2]
    ELSE IF Len(b) = 1 THEN b[1]
    ELSE 0

\* round(100 * nums / dens, 0): the product of nums over the product of dens,
\* in hundredths; round() takes a tie to the even neighbour
RoundProduct(nums, dens) ==
    LET a == BigMulAll(<<1>>, nums \o <<200>>, 1)
        b == BigMulAll(<<1>>, dens, 1)
        sum == BigAdd(a, b)
        half_up == BigDivAll(sum, dens \o <<2>>, 1)
        tie == BigMulAll(half_up, dens \o <<2>>, 1) = sum
    IN  IF tie /\ half_up /= <<>> /\ half_up[1] % 2 = 1
        THEN BigToInt(half_up) - 1
        ELSE BigToInt(half_up)

\* round(f, 2) in hundredths, a tie taken to the even neighbour
RoundCenti(f) ==
    LET whole == f.num \div f.den
        r == f.num % f.den
        centi == (100 * r) \div f.den
        left == 2 * ((100 * r) % f.den)
    IN  100 * whole + centi
        + (IF left > f.den \/ (left = f.den /\ centi % 2 = 1) THEN 1 ELSE 0)

\* min(f, cap) for an integer cap
FracMin(f, cap) == IF f.num >= cap * f.den THEN Frac(cap, 1) ELSE f

\* 100000 * log10(x) to the nearest integer (math.log2(x) / math.log2(10))
Log10Table ==
    <<0, 30103, 47712, 60206, 69897, 77815, 84510, 90309, 95424, 100000,
      104139, 107918, 111394, 114613, 117609, 120412, 123045, 125527, 127875,
      130103>>

LogScale == 100000

RECURSIVE Log10E5(_)
Log10E5(x) ==
    IF x <= Len(Log10Table) THEN Log10Table[x]
    ELSE LogScale + Log10E5(x \div 10)

(***************************************************************************)
(* analyzers/trend_scorer.py                                               *)
(***************************************************************************)
\* sum(post.get(field, 0) for post in posts)
RECURSIVE SumField(_, _)
SumField(posts, field) ==
    IF posts = <<>> THEN 0
    ELSE (CASE field = "views" -> Head(posts).views
            [] field = "likes" -> Head(posts).likes
            [] field = "comments" -> Head(posts).comments
            [] field = "shares" -> Head(posts).shares)
         + SumField(Tail(posts), field)

\* post_times: the timestamps that are datetimes or parse as ISO strings
RECURSIVE PostTimes(_)
PostTimes(posts) ==
    IF posts = <<>> THEN <<>>
    ELSE LET p == Head(posts).posted_at
         IN  (IF p.k \in {"dt", "str"} THEN <<[aware |-> FALSE, h |-> p.h]>>
              ELSE IF p.k \in {"dtz", "strz"}
                   THEN <<[aware |-> TRUE, h |-> p.h]>>
              ELSE <<>>)
             \o PostTimes(Tail(posts))

Range(f) == {f[i] : i \in DOMAIN f}
MinOf(S) == CHOOSE x \in S : \A y \in S : x <= y
MaxOf(S) == CHOOSE x \in S : \A y \in S : x >= y

\* min() and max() compare an aware with a naive datetime when post_times
\* holds both: TypeError
prepare_trend_data(trend) ==
    LET posts == trend.posts
        post_times == PostTimes(posts)
        hours == {post_times[i].h : i \in 1..Len(post_times)}
        total_views == SumField(posts, "views")
    IN  IF posts = <<>>
        THEN Ok([total_views |-> 0, total_likes |-> 0, total_comments |-> 0,
                 total_shares |-> 0, current_views |-> 0, views_6h_ago |-> 0,
                 platforms |-> {}, oldest_post |-> 0, newest_post |-> 0,
                 aware |-> FALSE, post_count |-> 0, posts |-> <<>>])
        ELSE IF \E i, j \in 1..Len(post_times) :
                   post_times[i].aware /= post_times[j].aware
        THEN Raised
        ELSE Ok([total_views |-> total_views,
                 total_likes |-> SumField(posts, "likes"),
                 total_comments |-> SumField(posts, "comments"),
                 total_shares |-> SumField(posts, "shares"),
                 current_views |-> total_views,
                 views_6h_ago |-> IF total_views > 0
                                  THEN (4 * total_views) \div 5 ELSE 0,
                 platforms |-> {posts[i].platform : i \in 1..Len(posts)},
                 oldest_post |-> IF hours = {} THEN 0 ELSE MinOf(hours),
                 newest_post |-> IF hours = {} THEN 0 ELSE MaxOf(hours),
                 aware |-> post_times /= <<>> /\ post_times[1].aware,
                 post_count |-> Len(posts), posts |-> posts])

\* the velocity when views_6h_ago is taken to be 0
calculate_velocity_from_current(metrics) ==
    FracMin(Frac(metrics.current_views, 1000 * 10), 100)

calculate_velocity(metrics) ==
    LET current == metrics.current_views
        previous == metrics.views_6h_ago
        velocity == IF previous = 0 THEN Frac(current, 1000)
                    ELSE Frac(current - previous, 6)
    IN  IF velocity.num > 0
        THEN FracMin(Frac(velocity.num, velocity.den * 10), 100)
        ELSE Frac(0, 1)

\* time_span is in days: the hours between the two posts over 24
calculate_momentum(metrics) ==
    LET span_hours == metrics.newest_post - metrics.oldest_post
        time_span == IF span_hours = 0 THEN Frac(1, 1) ELSE Frac(span_hours, 24)
    IN  IF metrics.post_count = 0 THEN Frac(0, 1)
        ELSE FracMin(Frac(metrics.post_count * time_span.den * 10,
                          time_span.num), 100)

\* saves = likes * 0.1, so comments*3 + shares*5 + saves*7 is
\* (30 comments + 50 shares + 7 likes) / 10
calculate_engagement(metrics) ==
    IF metrics.total_views = 0 THEN Frac(0, 1)
    ELSE FracMin(Frac((30 * metrics.total_comments + 50 * metrics.total_shares
                          + 7 * metrics.total_likes) * 10,
                      metrics.total_views), 100)

\* log2(n + 1) / log2(10) * 100 is 100 * log10(n + 1)
calculate_geographic(metrics) ==
    LET platform_count == Cardinality(metrics.platforms)
    IN  IF platform_count = 0 THEN Frac(0, 1)
        ELSE FracMin(Frac(Log10E5(platform_count + 1), 1000), 100)

calculate_platform_diversity(metrics) ==
    FracMin(Frac(Cardinality(metrics.platforms) * 100, 10), 100)

\* now - newest_post is a TypeError when newest_post is aware;
\* 1 + (age_hours / 24) * 0.1 is (240 + age_hours) / 240
calculate_time_decay(metrics) ==
    LET age_hours == 0 - metrics.newest_post
    IN  IF metrics.aware THEN Raised
        ELSE Ok(FracMin(Frac(240 + age_hours, 240), 2))

calculate_competition(metrics) ==
    IF metrics.posts = <<>> THEN Frac(1, 1)
    ELSE FracMin(Frac(LogScale + Log10E5(Len(metrics.posts) + 1), LogScale),
                 3)

\* a normalisation without the final clamp to [min_val, max_val]
normalize_score_unclamped(positive, nums, dens, min_val, max_val) ==
    IF ~positive THEN 100 * min_val
    ELSE RoundProduct(nums \o <<max_val - min_val>>, dens \o <<10000>>)
             + 100 * min_val

\* _normalize_score of the positive score nums / dens (positive = FALSE:
\* a score <= 0), in hundredths
normalize_score(positive, nums, dens, min_val, max_val) ==
    IF ~positive THEN 100 * min_val
    ELSE IF max_val <= min_val
    THEN Min(100 * min_val + RoundProduct(nums, dens), 100 * 100)
    ELSE LET normalized == RoundProduct(nums \o <<max_val - min_val>>,
                                        dens \o <<10000>>) + 100 * min_val
         IN  Max(100 * min_val, Min(normalized, 100 * max_val))

\* the seven components of one trend, each a fraction
Components(m) ==
    [velocity |-> calculate_velocity(m),
     momentum |-> calculate_momentum(m),
     engagement |-> calculate_engagement(m),
     geographic |-> calculate_geographic(m),
     platform_diversity |-> calculate_platform_diversity(m),
     time_decay |-> calculate_time_decay(m).val,
     competition |-> calculate_competition(m)]

\* uts_raw = numerator / denominator and its normalisation to 0..100
UtsScore(c) ==
    normalize_score(
        \* uts_raw > 0: a positive numerator over a positive denominator
        /\ c.time_decay.num > 0
        /\ c.velocity.num > 0 /\ c.momentum.num > 0 /\ c.engagement.num > 0
        /\ c.geographic.num > 0 /\ c.platform_diversity.num > 0,
        <<c.velocity.num, c.momentum.num, c.engagement.num, c.geographic.num,
          c.platform_diversity.num, c.time_decay.den, c.competition.den>>,
        <<c.velocity.den, c.momentum.den, c.engagement.den, c.geographic.den,
          c.platform_diversity.den, c.time_decay.num, c.competition.num>>,
        0, 100)

\* the body of the loop of score_trends for one trend
ScoreTrend(trend) ==
    LET data == prepare_trend_data(trend)
    IN  IF data.raised \/ calculate_time_decay(data.val).raised THEN Raised
        ELSE LET c == Components(data.val)
             IN  Ok([trend |-> trend,
                     uts_score |-> UtsScore(c),
                     velocity_score |-> RoundCenti(c.velocity),
                     momentum_score |-> RoundCenti(c.momentum),
                     engagement_score |-> RoundCenti(c.engagement),
                     geographic_score |-> RoundCenti(c.geographic),
                     platform_diversity_score |->
                         RoundCenti(c.platform_diversity),
                     time_decay_score |-> RoundCenti(c.time_decay),
                     competition_score |-> RoundCenti(c.competition)])

RECURSIVE score_trends(_)
score_trends(trends) ==
    IF trends = <<>> THEN Ok(<<>>)
    ELSE LET first == ScoreTrend(Head(trends))
             rest == score_trends(Tail(trends))
         IN  IF first.raised \/ rest.raised THEN Raised
             ELSE Ok(<<first.val>> \o rest.val)

(***************************************************************************)
(* analyzers/ai_analyzer.py.  What _analyze_single yields for one record   *)
(* is the environment's choice: an analysis object, an exception (gather   *)
(* hands it back as a value), or a parsed JSON value that is not an object *)
(* yet passes the required-fields test (a string or a list naming them).   *)
(***************************************************************************)
Analysed(a) == [k |-> "analysis", a |-> a]
Failed == [k |-> "exception", a |-> NoneAnalysis]
NonMapping == [k |-> "analysis", a |-> [NoAnalysis EXCEPT !.k = "junk"]]

\* the loop over one batch, from its record i to its record last: the
\* annotated records and the ones appended to analyzed_data
RECURSIVE BatchLoop(_, _, _, _)
BatchLoop(data, results, i, last) ==
    IF i > last THEN [annotated |-> <<>>, analyzed |-> <<>>]
    ELSE LET rest == BatchLoop(data, results, i + 1, last)
             result == results[i]
         IN  IF result.k = "exception"
             THEN LET item == [data[i] EXCEPT !.ai_analysis = NoneAnalysis,
                                              !.ai_error = TRUE]
                  IN  [annotated |-> <<item>> \o rest.annotated,
                       analyzed |-> rest.analyzed]
             ELSE LET item == [data[i] EXCEPT !.ai_analysis = result.a]
                  IN  [annotated |-> <<item>> \o rest.annotated,
                       analyzed |-> <<item>> \o rest.analyzed]

\* the loop over the batches data[i:i + batch_size]
RECURSIVE BatchesLoop(_, _, _, _)
BatchesLoop(data, results, i, batch_size) ==
    IF i > Len(data) THEN [annotated |-> <<>>, analyzed |-> <<>>]
    ELSE LET batch == BatchLoop(data, results, i,
                                Min(i + batch_size - 1, Len(data)))
             rest == BatchesLoop(data, results, i + batch_size, batch_size)
         IN  [annotated |-> batch.annotated \o rest.annotated,
              analyzed |-> batch.analyzed \o rest.analyzed]

\* ret: what analyze_batch returns, or Raised when the relevance count
\* calls .get on an analysis that is not an object; data: the input
\* records as the call leaves them (they are annotated in place)
analyze_batch(data, results, batch_size) ==
    IF data = <<>> THEN [ret |-> Ok(<<>>), data |-> data]
    ELSE LET done == BatchesLoop(data, results, 1, batch_size)
             analyzed_data == done.analyzed
         IN  [ret |-> IF \E i \in 1..Len(analyzed_data) :
                            analyzed_data[i].ai_analysis.k = "junk"
                      THEN Raised
                      ELSE Ok(analyzed_data),
              data |-> done.annotated]

(***************************************************************************)
(* main.py run_pipeline and dashboard.py run_pipeline_async                *)
(***************************************************************************)
\* the collectors list, in order
Collectors ==
    <<"GoogleTrendsCollector", "RedditCollector", "YouTubeCollector",
      "TikTokCollector">>

\* a run without the empty check: the stages run on an empty list
NoShortCircuit(mode, raw) == FALSE

\* "if not raw_data: return []" of run_pipeline; run_pipeline_async has no
\* such statement
EmptyShortCircuit(mode, raw) == mode = "cli" /\ raw = <<>>

\* sorted(scored, key=uts_score, reverse=True): descending, equal scores in
\* their original order
RECURSIVE InsertByUts(_, _)
InsertByUts(sorted, t) ==
    IF sorted = <<>> THEN <<t>>
    ELSE IF Head(sorted).uts_score >= t.uts_score
         THEN <<Head(sorted)>> \o InsertByUts(Tail(sorted), t)
         ELSE <<t>> \o sorted

RECURSIVE SortByUts(_)
SortByUts(scored) ==
    IF scored = <<>> THEN <<>>
    ELSE InsertByUts(SortByUts(SubSeq(scored, 1, Len(scored) - 1)),
                     scored[Len(scored)])

(***************************************************************************)
(* analyzers/viral_content_filter.py                                       *)
(***************************************************************************)
MIN_VIEWS == 1000
MIN_LIKES == 50
\* MIN_ENGAGEMENT_RATE = 0.01
MIN_ENGAGEMENT_RATE == Frac(1, 100)

\* a record with the fields the filter adds to it; has = the added fields
Annotated(item) ==
    [item |-> item, has |-> {}, relevance_score |-> 0, viral_score |-> 0,
     engagement_score |-> 0]

RECURSIVE AnnotateAll(_)
AnnotateAll(data) ==
    IF data = <<>> THEN <<>>
    ELSE <<Annotated(Head(data))>> \o AnnotateAll(Tail(data))

get_extended_keywords(vertical) ==
    CASE vertical = "coffee" ->
           <<"recipe", "how to", "tutorial", "trending", "viral", "new drink",
             "special", "limited", "seasonal", "oat milk", "almond milk",
             "coconut milk", "syrup", "flavor", "topping", "foam", "art">>
      [] vertical = "restaurant" ->
           <<"recipe", "how to", "tutorial", "trending", "viral", "new dish",
             "special", "signature", "chef", "ingredient", "cooking",
             "preparation", "presentation">>
      [] vertical = "barbershop" ->
           <<"style", "cut", "tutorial", "trending", "viral", "new look",
             "fade", "trim", "styling", "technique">>
      [] OTHER -> <<>>

get_context_indicators(vertical) ==
    CASE vertical = "coffee" ->
           <<"recipe", "how to make", "tutorial", "review", "taste",
             "ingredients", "barista", "cafe", "coffee shop">>
      [] vertical = "restaurant" ->
           <<"recipe", "how to cook", "tutorial", "review", "taste",
             "ingredients", "chef", "restaurant", "menu item">>
      [] vertical = "barbershop" ->
           <<"how to cut", "tutorial", "style", "technique", "barber",
             "hairstyle", "look">>
      [] OTHER -> <<>>

\* sum(1 for kw in keywords if kw in content)
KeywordMatches(content, keywords) ==
    Cardinality({i \in 1..Len(keywords) : Contains(content, keywords[i])})

\* the relevance_score of the loop body of _filter_business_relevant; the
\* ai_analysis is one that .get can be called on
RelevanceScore(x, vertical) ==
    LET content == Lower(x.item.content)
        ai == x.item.ai_analysis
        all_keywords == get_vertical_keywords(vertical)
                            \o get_extended_keywords(vertical)
    IN  2 * KeywordMatches(content, all_keywords)
        + (IF ai.k = "dict" /\ ai.restaurant_applicable THEN 10 ELSE 0)
        + (IF ai.k = "dict" /\ ai.item_name \notin {"", PyNone} THEN 5 ELSE 0)
        + 3 * KeywordMatches(content, get_context_indicators(vertical))
        + (IF x.item.platform \in {"tiktok", "instagram", "youtube"}
           THEN 2 ELSE 0)

RECURSIVE BusinessLoop(_, _)
BusinessLoop(data, vertical) ==
    IF data = <<>> THEN Ok(<<>>)
    ELSE LET x == Head(data)
             rest == BusinessLoop(Tail(data), vertical)
         IN  IF x.item.platform = "google_trends"
             THEN IF rest.raised THEN Raised ELSE Ok(<<x>> \o rest.val)
             ELSE IF x.item.ai_analysis.k = "junk" THEN Raised
             ELSE IF rest.raised THEN Raised
             ELSE IF RelevanceScore(x, vertical) >= 2
             THEN Ok(<<[x EXCEPT
                          !.relevance_score = RelevanceScore(x, vertical),
                          !.has = @ \cup {"relevance_score"}]>> \o rest.val)
             ELSE rest

filter_business_relevant(data, vertical) == BusinessLoop(data, vertical)

\* total_engagement = views + (likes * 10) + (comments * 5) + (shares * 20)
TotalEngagement(item) ==
    item.views + item.likes * 10 + item.comments * 5 + item.shares * 20

\* platform_multiplier, in tenths
PlatformMultiplier(platform) ==
    CASE platform = "tiktok" -> 15
      [] platform = "instagram" -> 13
      [] platform = "youtube" -> 12
      [] platform = "reddit" -> 11
      [] OTHER -> 10

\* _calculate_viral_score, in hundredths
calculate_viral_score(item) ==
    IF item.views = 0 THEN 0
    ELSE LET bonus == IF item.views > 100000 THEN 12
                      ELSE IF item.views > 10000 THEN 11 ELSE 10
             rate == item.likes + item.comments * 2 + item.shares * 5
         IN  RoundCenti(Frac(rate * 100 * PlatformMultiplier(item.platform)
                                 * bonus,
                             item.views * 10 * 10))

\* what the loop body of _filter_viral_content does with one record: it is
\* dropped, or x is appended
ViralKeep(x) == [drop |-> FALSE, x |-> x]
ViralDrop(x) == [drop |-> TRUE, x |-> x]

\* a virality step without the floor on views
ViralVerdictNoMinViews(x, min_engagement) ==
    LET item == x.item
    IN  IF item.platform = "google_trends" THEN ViralDrop(x)
        ELSE IF item.likes < MIN_LIKES THEN ViralDrop(x)
        ELSE IF TotalEngagement(item) < min_engagement THEN ViralDrop(x)
        ELSE ViralKeep(x)

ViralVerdict(x, min_engagement) ==
    LET item == x.item
        interest == IF item.interest_score.k = "int"
                    THEN item.interest_score.v ELSE 0
    IN  IF item.platform = "google_trends"
        THEN IF interest >= 50
             THEN ViralKeep([x EXCEPT !.engagement_score = interest * 100,
                                      !.has = @ \cup {"engagement_score"}])
             ELSE ViralDrop(x)
        ELSE IF item.views < MIN_VIEWS THEN ViralDrop(x)
        ELSE IF item.likes < MIN_LIKES THEN ViralDrop(x)
        ELSE IF /\ item.views > 0
                /\ ~FracGeq(Frac(item.likes, item.views),
                            MIN_ENGAGEMENT_RATE)
        THEN ViralDrop(x)
        ELSE IF TotalEngagement(item) < min_engagement THEN ViralDrop(x)
        ELSE ViralKeep(
                 [x EXCEPT !.viral_score = calculate_viral_score(item),
                           !.engagement_score = TotalEngagement(item),
                           !.has = @ \cup {"viral_score",
                                            "engagement_score"}])

RECURSIVE filter_viral_content(_, _)
filter_viral_content(data, min_engagement) ==
    IF data = <<>> THEN <<>>
    ELSE LET v == ViralVerdict(Head(data), min_engagement)
         IN  (IF v.drop THEN <<>> ELSE <<v.x>>)
                 \o filter_viral_content(Tail(data), min_engagement)

\* the sort key (viral_score, engagement_score, relevance_score): a >= b
ViralKeyGeq(a, b) ==
    \/ a.viral_score > b.viral_score
    \/ /\ a.viral_score = b.viral_score
       /\ \/ a.engagement_score > b.engagement_score
          \/ /\ a.engagement_score = b.engagement_score
             /\ a.relevance_score >= b.relevance_score

RECURSIVE InsertByVirality(_, _)
InsertByVirality(sorted, x) ==
    IF sorted = <<>> THEN <<x>>
    ELSE IF ViralKeyGeq(Head(sorted), x)
         THEN <<Head(sorted)>> \o InsertByVirality(Tail(sorted), x)
         ELSE <<x>> \o sorted

\* sorted(data, key=..., reverse=True): descending, equal keys in their
\* original order
RECURSIVE prioritize_by_virality(_)
prioritize_by_virality(data) ==
    IF data = <<>> THEN <<>>
    ELSE InsertByVirality(
             prioritize_by_virality(SubSeq(data, 1, Len(data) - 1)),
             data[Len(data)])

filter_trending_content(data, vertical, min_engagement, prioritize_viral) ==
    LET relevant == filter_business_relevant(data, vertical)
    IN  IF relevant.raised THEN Raised
        ELSE LET viral == filter_viral_content(relevant.val, min_engagement)
             IN  Ok(IF prioritize_viral THEN prioritize_by_virality(viral)
                    ELSE viral)

(***************************************************************************)
(* config/geography.py                                                     *)
(***************************************************************************)
\* US_STATE_CODES, in the order of the dictionary: <<name, code>>
US_STATE_CODES ==
    <<<<"Alabama", "US-AL">>, <<"Alaska", "US-AK">>,
      <<"Arizona", "US-AZ">>, <<"Arkansas", "US-AR">>,
      <<"California", "US-CA">>, <<"Colorado", "US-CO">>,
      <<"Connecticut", "US-CT">>, <<"Delaware", "US-DE">>,
      <<"Florida", "US-FL">>, <<"Georgia", "US-GA">>,
      <<"Hawaii", "US-HI">>, <<"Idaho", "US-ID">>, <<"Illinois", "US-IL">>,
      <<"Indiana", "US-IN">>, <<"Iowa", "US-IA">>, <<"Kansas", "US-KS">>,
      <<"Kentucky", "US-KY">>, <<"Louisiana", "US-LA">>,
      <<"Maine", "US-ME">>, <<"Maryland", "US-MD">>,
      <<"Massachusetts", "US-MA">>, <<"Michigan", "US-MI">>,
      <<"Minnesota", "US-MN">>, <<"Mississippi", "US-MS">>,
      <<"Missouri", "US-MO">>, <<"Montana", "US-MT">>,
      <<"Nebraska", "US-NE">>, <<"Nevada", "US-NV">>,
      <<"New Hampshire", "US-NH">>, <<"New Jersey", "US-NJ">>,
      <<"New Mexico", "US-NM">>, <<"New York", "US-NY">>,
      <<"North Carolina", "US-NC">>, <<"North Dakota", "US-ND">>,
      <<"Ohio", "US-OH">>, <<"Oklahoma", "US-OK">>, <<"Oregon", "US-OR">>,
      <<"Pennsylvania", "US-PA">>, <<"Rhode Island", "US-RI">>,
      <<"South Carolina", "US-SC">>, <<"South Dakota", "US-SD">>,
      <<"Tennessee", "US-TN">>, <<"Texas", "US-TX">>, <<"Utah", "US-UT">>,
      <<"Vermont", "US-VT">>, <<"Virginia", "US-VA">>,
      <<"Washington", "US-WA">>, <<"West Virginia", "US-WV">>,
      <<"Wisconsin", "US-WI">>, <<"Wyoming", "US-WY">>,
      <<"District of Columbia", "US-DC">>>>

\* CITY_CODES, in the order of the dictionary
CITY_CODES ==
    <<<<"Chicago", "US-IL">>, <<"New York", "US-NY">>,
      <<"Los Angeles", "US-CA">>, <<"Houston", "US-TX">>,
      <<"Phoenix", "US-AZ">>, <<"Philadelphia", "US-PA">>,
      <<"San Antonio", "US-TX">>, <<"San Diego", "US-CA">>,
      <<"Dallas", "US-TX">>, <<"San Jose", "US-CA">>,
      <<"Austin", "US-TX">>, <<"Jacksonville", "US-FL">>,
      <<"Fort Worth", "US-TX">>, <<"Columbus", "US-OH">>,
      <<"Charlotte", "US-NC">>, <<"San Francisco", "US-CA">>,
      <<"Indianapolis", "US-IN">>, <<"Seattle", "US-WA">>,
      <<"Denver", "US-CO">>, <<"Boston", "US-MA">>>>

\* str.upper()
RECURSIVE Upper(_)
Upper(s) == IF s = "" THEN "" ELSE UpperChar(Head(s)) \o Upper(Tail(s))

\* s.startswith(p) and s.endswith(p)
StartsWith(s, p) == Len(p) <= Len(s) /\ SubSeq(s, 1, Len(p)) = p
EndsWith(s, p) ==
    Len(p) <= Len(s) /\ SubSeq(s, Len(s) - Len(p) + 1, Len(s)) = p

\* the position of the last "," of s, 0 when there is none
RECURSIVE LastComma(_, _)
LastComma(s, i) ==
    IF i = 0 THEN 0 ELSE IF Ch(s, i) = "," THEN i ELSE LastComma(s, i - 1)

\* [p.strip() for p in location.split(",")][-1]
LastPart(location) ==
    Strip(From(location, LastComma(location, Len(location)) + 1))

\* code.split("-")[1] of a code of the tables
CodeSuffix(code) == From(code, 4)

\* the first entry of a table that satisfies Test, as the for loops return
\* it; 0 when no entry does
FirstEntry(entries, Test(_)) ==
    IF \E i \in 1..Len(entries) : Test(entries[i])
    THEN CHOOSE i \in 1..Len(entries) :
             Test(entries[i]) /\ \A j \in 1..(i - 1) : ~Test(entries[j])
    ELSE 0

\* location is a dict k = "none" (None) or "str" with the text s
location_to_geo_code(loc) ==
    IF loc.k = "none" \/ loc.s = "" THEN ""
    ELSE LET location == Strip(loc.s)
             state == LastPart(location)
             ByNameOrCode(e) ==
                 \/ Upper(state) = Upper(e[1])
                 \/ Upper(state) = CodeSuffix(e[2])
             BySuffix(e) == EndsWith(e[2], Upper(state))
             ByState(e) == Lower(location) = Lower(e[1])
             ByCity(e) == Lower(location) = Lower(e[1])
             has_comma == LastComma(location, Len(location)) > 0
             first == FirstEntry(US_STATE_CODES, ByNameOrCode)
             second == FirstEntry(US_STATE_CODES, BySuffix)
             third == FirstEntry(US_STATE_CODES, ByState)
             fourth == FirstEntry(CITY_CODES, ByCity)
         IN  IF StartsWith(location, "US-") /\ Len(location) = 5
             THEN location
             ELSE IF has_comma /\ first > 0 THEN US_STATE_CODES[first][2]
             ELSE IF has_comma /\ second > 0 THEN US_STATE_CODES[second][2]
             ELSE IF third > 0 THEN US_STATE_CODES[third][2]
             ELSE IF fourth > 0 THEN CITY_CODES[fourth][2]
             ELSE ""

(***************************************************************************)
(* admin/usage_tracker.py.  A dict is a function from its keys; a day is   *)
(* the number of the calendar day that strftime('%Y-%m-%d') names; a       *)
(* timestamp is the day and the number of the call; a cost is a whole      *)
(* number of millionths of a dollar, which keeps the sums of the costs     *)
(* exact.                                                                  *)
(***************************************************************************)
Services == {"apify", "claude", "youtube", "reddit", "google_trends"}

EmptyDict == [k \in {} |-> 0]
Has(d, k) == k \in DOMAIN d
Put(d, k, v) == (k :> v) @@ d

\* the '' that .get('last_reset', '') yields for a missing key
NoDay == 0 - 1

HistoryLimit == 100
cost_per_million_input == 3
cost_per_million_output == 15

get_default_data(day) ==
    [apify |->
        [total_runs |-> 0, total_cost_usd |-> 0, runs_today |-> 0,
         cost_today |-> 0, last_reset |-> day, history |-> <<>>],
     claude |->
        [total_requests |-> 0, total_tokens_input |-> 0,
         total_tokens_output |-> 0, total_cost_usd |-> 0,
         requests_today |-> 0, tokens_today |-> 0, cost_today |-> 0,
         last_reset |-> day, history |-> <<>>],
     youtube |->
        [total_requests |-> 0, total_quota_units |-> 0, requests_today |-> 0,
         quota_today |-> 0, last_reset |-> day, history |-> <<>>],
     reddit |->
        [total_requests |-> 0, requests_today |-> 0, last_reset |-> day,
         history |-> <<>>],
     google_trends |->
        [total_requests |-> 0, requests_today |-> 0, last_reset |-> day,
         history |-> <<>>]]

\* the file: "missing", "unreadable" (open raises), "invalid" (json.load
\* raises) or "json" with the value v that json.load returns
StoreFile(kind, v) == [k |-> kind, v |-> v]

load_data(store, day) ==
    IF store.k = "json" THEN store.v ELSE get_default_data(day)

\* open(path, 'w') raises and leaves the file as it was ("open_fails"), or
\* truncates it and the dump then raises ("write_fails"), or the whole of
\* _data is written; the exception is swallowed
WriteOutcomes == {"ok", "open_fails", "write_fails"}

\* each writer rewrites only the section of its own service over the file
\* as it was loaded
save_own_section(data, outcome, store, loaded, service) ==
    CASE outcome = "ok" ->
           StoreFile("json", IF Has(data, service)
                             THEN Put(loaded, service, data[service])
                             ELSE loaded)
      [] outcome = "open_fails" -> store
      [] OTHER -> StoreFile("invalid", EmptyDict)

save_data(data, outcome, store, loaded, service) ==
    CASE outcome = "ok" -> StoreFile("json", data)
      [] outcome = "open_fails" -> store
      [] OTHER -> StoreFile("invalid", EmptyDict)

TodayFields(service) ==
    CASE service = "apify" -> <<"runs_today", "cost_today">>
      [] service = "claude" ->
           <<"requests_today", "tokens_today", "cost_today">>
      [] service = "youtube" -> <<"requests_today", "quota_today">>
      [] service \in {"reddit", "google_trends"} -> <<"requests_today">>
      [] OTHER -> <<>>

RECURSIVE ZeroFields(_, _)
ZeroFields(service_data, fields) ==
    IF fields = <<>> THEN service_data
    ELSE ZeroFields(Put(service_data, Head(fields), 0), Tail(fields))

\* the daily counters are never reset
reset_never(data, service, today) == data

\* service_data is self._data.get(service, {}): for a service that _data
\* lacks, the assignments go to a dict that is dropped
reset_daily_if_needed(data, service, today) ==
    LET service_data == IF Has(data, service) THEN data[service]
                        ELSE EmptyDict
        last_reset == IF Has(service_data, "last_reset")
                      THEN service_data.last_reset ELSE NoDay
    IN  IF last_reset = today \/ ~Has(data, service) THEN data
        ELSE Put(data, service,
                 Put(ZeroFields(service_data, TodayFields(service)),
                     "last_reset", today))

\* service_data[field] += amount for each <<field, amount>> in order; the
\* first field that service_data lacks raises KeyError, and the additions
\* made before it stay
RECURSIVE AddFields(_, _)
AddFields(service_data, incs) ==
    IF incs = <<>> THEN [raised |-> FALSE, sd |-> service_data]
    ELSE IF ~Has(service_data, Head(incs)[1])
         THEN [raised |-> TRUE, sd |-> service_data]
         ELSE AddFields(Put(service_data, Head(incs)[1],
                            service_data[Head(incs)[1]] + Head(incs)[2]),
                        Tail(incs))

\* history[:100] is kept, the oldest entries
TrimOldest(history) ==
    IF Len(history) > HistoryLimit THEN SubSeq(history, 1, HistoryLimit)
    ELSE history

\* if len(history) > 100: history = history[-100:]
TrimHistory(history) ==
    IF Len(history) > HistoryLimit
    THEN SubSeq(history, Len(history) - HistoryLimit + 1, Len(history))
    ELSE history

\* the body that the five track_ methods share, up to the save: the reset,
\* the additions, the history entry and the trimming
TrackCall(data, service, incs, entry, today) ==
    LET d1 == reset_daily_if_needed(data, service, today)
    IN  IF ~Has(d1, service) THEN [raised |-> TRUE, data |-> d1]
        ELSE LET r == AddFields(d1[service], incs)
             IN  IF r.raised \/ ~Has(r.sd, "history")
                 THEN [raised |-> TRUE, data |-> Put(d1, service, r.sd)]
                 ELSE [raised |-> FALSE,
                       data |-> Put(d1, service,
                                    Put(r.sd, "history",
                                        TrimHistory(Append(r.sd.history,
                                                           entry))))]

Timestamp(today, n) == <<today, n>>

ApifyEntry(actor_name, cost_usd, items_collected, ts) ==
    [timestamp |-> ts, actor |-> actor_name, cost_usd |-> cost_usd,
     items_collected |-> items_collected]

track_apify_run(data, actor_name, cost_usd, items_collected, today, n) ==
    TrackCall(data, "apify",
              <<<<"total_runs", 1>>, <<"total_cost_usd", cost_usd>>,
                <<"runs_today", 1>>, <<"cost_today", cost_usd>>>>,
              ApifyEntry(actor_name, cost_usd, items_collected,
                         Timestamp(today, n)),
              today)

\* the rates are swapped
claude_cost_swapped(input_tokens, output_tokens) ==
    input_tokens * cost_per_million_output
    + output_tokens * cost_per_million_input

\* input_tokens / 1_000_000 * 3.0 + output_tokens / 1_000_000 * 15.0
\* dollars, in millionths of a dollar
claude_cost(input_tokens, output_tokens) ==
    input_tokens * cost_per_million_input
    + output_tokens * cost_per_million_output

ClaudeEntry(input_tokens, output_tokens, ts) ==
    [timestamp |-> ts, model |-> "claude-sonnet-4-20250514",
     input_tokens |-> input_tokens, output_tokens |-> output_tokens,
     total_tokens |-> input_tokens + output_tokens,
     cost_usd |-> claude_cost(input_tokens, output_tokens)]

track_claude_request(data, input_tokens, output_tokens, today, n) ==
    LET cost_usd == claude_cost(input_tokens, output_tokens)
        total_tokens == input_tokens + output_tokens
    IN  TrackCall(data, "claude",
                  <<<<"total_requests", 1>>,
                    <<"total_tokens_input", input_tokens>>,
                    <<"total_tokens_output", output_tokens>>,
                    <<"total_cost_usd", cost_usd>>,
                    <<"requests_today", 1>>,
                    <<"tokens_today", total_tokens>>,
                    <<"cost_today", cost_usd>>>>,
                  ClaudeEntry(input_tokens, output_tokens,
                              Timestamp(today, n)),
                  today)

YoutubeEntry(quota_units, ts) == [timestamp |-> ts, quota_units |-> quota_units]

track_youtube_request(data, quota_units, today, n) ==
    TrackCall(data, "youtube",
              <<<<"total_requests", 1>>, <<"total_quota_units", quota_units>>,
                <<"requests_today", 1>>, <<"quota_today", quota_units>>>>,
              YoutubeEntry(quota_units, Timestamp(today, n)),
              today)

PlainEntry(ts) == [timestamp |-> ts]

track_reddit_request(data, today, n) ==
    TrackCall(data, "reddit",
              <<<<"total_requests", 1>>, <<"requests_today", 1>>>>,
              PlainEntry(Timestamp(today, n)), today)

track_google_trends_request(data, today, n) ==
    TrackCall(data, "google_trends",
              <<<<"total_requests", 1>>, <<"requests_today", 1>>>>,
              PlainEntry(Timestamp(today, n)), today)

(***************************************************************************)
(* data_collectors: the credential checks of the Reddit, YouTube and       *)
(* TikTok collectors.  What _collect_sync does with a client is the        *)
(* "live" outcome: the records returned or an exception, the number of     *)
(* external calls and the number of tracking calls.                        *)
(***************************************************************************)
\* "not value" is false
Truthy(value) == value /= PyNone /\ value /= ""

NoClient == "None"

\* RedditCollector.__init__: self.reddit
RedditClient(settings) ==
    IF ~Truthy(settings.reddit_client_id)
       \/ ~Truthy(settings.reddit_client_secret)
    THEN NoClient ELSE "praw.Reddit"

\* YouTubeCollector.__init__: self.youtube
YouTubeClient(settings) ==
    IF ~Truthy(settings.youtube_api_key) THEN NoClient ELSE "build"

\* TikTokCollector.__init__: self.client
TikTokClient(settings) ==
    IF ~Truthy(settings.apify_api_key) THEN NoClient ELSE "ApifyClient"

ClientOf(c, settings) ==
    CASE Collectors[c] = "RedditCollector" -> RedditClient(settings)
      [] Collectors[c] = "YouTubeCollector" -> YouTubeClient(settings)
      [] Collectors[c] = "TikTokCollector" -> TikTokClient(settings)
      [] OTHER -> "TrendReq"

Skipped == [out |-> Ok(<<>>), ext |-> 0, tracked |-> 0]

\* collect goes on to _collect_sync whatever the client is
collect_unguarded(client, live) == live

\* collect: "if self.<client> is None: return []", else _collect_sync
collect(client, live) == IF client = NoClient THEN Skipped ELSE live

(***************************************************************************)
(* dashboard.py: the script that Streamlit runs from top to bottom at each *)
(* render.  st.sidebar.button returns True in the render that a press of   *)
(* the button triggers and False in every other render.                    *)
(***************************************************************************)
\* the flag is left as it was when the button was not pressed
run_flag_kept(pressed, flag) == pressed \/ flag

\* if st.sidebar.button(...): run_pipeline = True else: run_pipeline = False
run_flag(pressed, flag) == pressed

\* 'results' is not in st.session_state
NoResults == [set |-> FALSE, val |-> <<>>]
Stored(results) == [set |-> TRUE, val |-> results]

\* the dict that run_pipeline_async returns, here its arguments, the
\* number of the run and the number of records collected
PipelineResult(inputs, run, raw) ==
    [inputs |-> inputs, run |-> run, raw_data |-> raw]

\* what the script displays: the stored results when there are any
Displayed(results) ==
    IF results.set /\ results.val /= <<>> THEN results ELSE NoResults

(***************************************************************************)
(* analyzers/ai_analyzer.py _analyze_single.  A model call raises an error *)
(* or returns a message; the text of a message is not JSON, or JSON of     *)
(* some shape that holds some of the required field names ("has": the keys *)
(* of an object, the members of a list, the names that occur in a string). *)
(***************************************************************************)
required_fields ==
    {"item_name", "category", "sentiment", "viral_potential",
     "restaurant_applicable"}

Reply(json, shape, has) == [json |-> json, shape |-> shape, has |-> has]

\* the outcome of client.messages.create: an exception err, or a message
\* with its usage counts, the shape of its text and, when the text is a
\* JSON object, the analysis val that it spells
Call(raised, err, reply, val, input_tokens, output_tokens) ==
    [raised |-> raised, err |-> err, reply |-> reply, val |-> val,
     input_tokens |-> input_tokens, output_tokens |-> output_tokens]

CallRaises(err) == Call(TRUE, err, Reply(FALSE, "", {}), NoneAnalysis, 0, 0)
NoCall == CallRaises("")

\* what the except clause of json.JSONDecodeError returns
Fallback == Analysis(PyNone, PyNone, "neutral", 5, FALSE)

Returns(val) == [k |-> "return", val |-> val, err |-> ""]
Raises(err) == [k |-> "raise", val |-> NoneAnalysis, err |-> err]

\* the inner try: json.loads, then the test of the required fields, which
\* raises TypeError on a number; an object is returned as the analysis
\* val, a list or a string as it is
parse_reply(reply, val) ==
    IF ~reply.json THEN Returns(Fallback)
    ELSE IF reply.shape = "number" THEN Raises("TypeError")
    ELSE IF required_fields \subseteq reply.has
         THEN Returns(IF reply.shape = "object" THEN val
                      ELSE [NoAnalysis EXCEPT !.k = "junk"])
         ELSE Raises("ValueError")

\* every exception is retried
RetriedAlways(err) == TRUE

\* the except clauses that wait and continue: RateLimitError and APIError
Retried(err) == err \in {"RateLimitError", "APIError"}

\* the wait does not grow with the attempt
wait_time_flat(attempt) == 2

wait_time(attempt) == (attempt + 1) * 2

\* the body of the try of one attempt once the model call has returned a
\* message (raised = FALSE) or raised err: the tracking call, which raises
\* KeyError when the tracker's data has no usable claude section, then the
\* parse of the reply
try_body(call, data) ==
    IF call.raised THEN [tracked |-> 0, out |-> Raises(call.err)]
    ELSE IF track_claude_request(data, call.input_tokens,
                                 call.output_tokens, 0, 1).raised
         THEN [tracked |-> 1, out |-> Raises("KeyError")]
         ELSE [tracked |-> 1, out |-> parse_reply(call.reply, call.val)]

\* what the except clauses make of the outcome of the try of one attempt:
\* "retry" stands for the sleep followed by continue
handle_attempt(out, attempt, max_retries) ==
    IF out.k = "raise" /\ Retried(out.err) /\ attempt < max_retries - 1
    THEN [k |-> "retry", val |-> NoneAnalysis, err |-> out.err]
    ELSE out

(***************************************************************************)
(* analyzers/ai_analyzer.py analyze_batch, batch by batch.  asyncio.gather *)
(* starts _analyze_single for every record of the batch; the calls resolve *)
(* in any order and gather returns once each has a result or an exception. *)
(***************************************************************************)
Pending == [k |-> "pending", a |-> NoneAnalysis]

\* the index of the last record of the batch that starts at first
batch_last(data, first, batch_size) == Min(first + batch_size - 1, Len(data))

\* gather returns with the first result
gather_returns_on_first(results, first, last) ==
    \E i \in first..last : results[i] /= Pending

\* await asyncio.gather(*tasks, return_exceptions=True) returns
gather_returns(results, first, last) ==
    \A i \in first..last : results[i] /= Pending

(***************************************************************************)
(* data_collectors/base_collector.py: the platform tag of a collector      *)
(***************************************************************************)
\* str.replace(old, ""): every occurrence of old removed, left to right
RECURSIVE RemoveAll(_, _)
RemoveAll(s, old) ==
    IF s = "" THEN ""
    ELSE IF MatchAt(s, 1, old) THEN RemoveAll(From(s, 1 + Len(old)), old)
    ELSE Ch(s, 1) \o RemoveAll(From(s, 2), old)

\* the tag is the name of the usage service, "google_trends"
platform_name_of_service(class_name) ==
    IF class_name = "GoogleTrendsCollector" THEN "google_trends"
    ELSE Lower(RemoveAll(class_name, "Collector"))

\* self.__class__.__name__.replace("Collector", "").lower()
platform_name(class_name) == Lower(RemoveAll(class_name, "Collector"))

(***************************************************************************)
(* admin/usage_tracker.py: get_stats and get_today_cost                    *)
(***************************************************************************)
\* for service in self._data.keys(): self._reset_daily_if_needed(service)
RECURSIVE ResetAll(_, _, _)
ResetAll(data, keys, today) ==
    IF keys = {} THEN data
    ELSE LET service == CHOOSE k \in keys : TRUE
         IN  ResetAll(reset_daily_if_needed(data, service, today),
                      keys \ {service}, today)

\* the data that get_stats leaves in the tracker and returns a copy of
get_stats(data, today) == ResetAll(data, DOMAIN data, today)

NoCost == [k |-> "none", v |-> 0]

\* self._data['apify']['cost_today'] + self._data['claude']['cost_today']
get_today_cost(data) ==
    IF /\ Has(data, "apify") /\ Has(data, "claude")
       /\ Has(data["apify"], "cost_today") /\ Has(data["claude"], "cost_today")
    THEN [k |-> "value",
          v |-> data["apify"].cost_today + data["claude"].cost_today]
    ELSE [k |-> "KeyError", v |-> 0]

(***************************************************************************)
(* Data Filter specification: an input list drawn from sample records, and *)
(* one action per operation of the Data Filter.                            *)
(***************************************************************************)
cLongA == "iced lavender latte recipe everyone is making at home this week"
cLongB == "iced lavender latte recipe everyone is making at home right now"
cShort == "Best ESPRESSO ever"
cOff == "new phone review"

FilterSamples ==
    { Post("tiktok", "p1", cShort, 10, 1, 0, 0, At(0 - 47)),
      Post("tiktok", "p1", cOff, 20, 0, 0, 0, At(0 - 49)),
      Post("tiktok", "", cLongA, 0, 4, 1, 0, At(5)),
      Post("tiktok", "", cLongB, 7, 0, 0, 2, NoDate),
      Post("reddit", "", cLongA, 3, 3, 0, 0, BadStr),
      [Post("googletrends", "g1", cOff, 60000, 0, 0, 0, At(0 - 72))
          EXCEPT !.interest_score = Interest(60)],
      [Post("google_trends", "g1", cOff, 0, 0, 0, 0, IsoStr(0 - 49))
          EXCEPT !.interest_score = Interest(0)],
      Post("youtube", "y1", cShort, 50, 5, 1, 0, AtAware(0 - 47)),
      [Post("reddit", "p2", cLongB, 1, 1, 1, 1, MissingDate)
          EXCEPT !.numeric = FALSE] }

FilterHours == {48, 24, 0}
FilterVerticals == {"coffee", "restaurant"}

\* the variables of a component that a specification does not exercise
FilterIdle == fin = <<>> /\ fop = "off" /\ fhours = 0 /\ fres = Ok(<<>>)
FinderIdle ==
    tin = <<>> /\ top = "off" /\ tfound = Ok(<<>>) /\ trelevant = Ok(<<>>)

ScorerIdle == sin = <<>> /\ sop = "off" /\ sres = Ok(<<>>)
PipeIdle ==
    /\ args = [mode |-> "off", vertical |-> "", hours |-> 0, use_ai |-> FALSE]
    /\ pc = "off" /\ collector_i = 0
    /\ status = <<>> /\ calls = <<>> /\ outputs = <<>>
    /\ run_raw_data = <<>> /\ run_filtered_data = <<>> /\ ai_results = <<>>
    /\ run_analyzed_data = <<>> /\ run_use_ai = FALSE /\ run_trends = <<>>
    /\ run_scored_trends = <<>> /\ run_top_3 = <<>> /\ invoked = {}
    /\ returned = "none"

AnalyzerIdle ==
    /\ ain = <<>> /\ aop = "off" /\ abatch = 0 /\ aresults = <<>>
    /\ ares = [ret |-> Ok(<<>>), data |-> <<>>]

ViralIdle ==
    /\ vin = <<>>
    /\ vop = "off"
    /\ vvertical = ""
    /\ vmin = 0
    /\ vres = Ok(<<>>)

GeoIdle ==
    /\ gin = [k |-> "none", s |-> ""]
    /\ gop = "off"
    /\ gres = ""

TrackerIdle ==
    /\ t_store = <<>>
    /\ t_created = FALSE
    /\ t_data = <<>>
    /\ t_loaded = <<>>
    /\ t_day = 0
    /\ t_calls = 0
    /\ t_log = <<>>
    /\ t_res = "off"
    /\ t_stage = "off"
    /\ t_focus = "off"

CredIdle ==
    /\ k_settings = <<>>
    /\ k_clients = <<>>
    /\ k_i = 0
    /\ k_out = <<>>
    /\ k_ext = <<>>
    /\ k_tracked = <<>>
    /\ k_raw = <<>>

DashIdle ==
    /\ d_inputs = <<>>
    /\ d_flag = FALSE
    /\ d_results = <<>>
    /\ d_render = "off"
    /\ d_ran = FALSE
    /\ d_before = <<>>
    /\ d_returned = <<>>
    /\ d_shown = <<>>
    /\ d_rerun = FALSE
    /\ d_runs = 0

SingleIdle ==
    /\ r_store = StoreFile("missing", EmptyDict)
    /\ r_max = 0
    /\ r_attempt = 0
    /\ r_pc = "off"
    /\ r_calls = 0
    /\ r_good = 0
    /\ r_tracked = 0
    /\ r_waits = <<>>
    /\ r_last = NoCall
    /\ r_res = [k |-> "none", val |-> NoneAnalysis, err |-> ""]

BatchIdle ==
    /\ q_data = <<>>
    /\ q_size = 0
    /\ q_pc = "off"
    /\ q_first = 0
    /\ q_submitted = {}
    /\ q_results = <<>>
    /\ q_analyzed = <<>>
    /\ q_ret = Ok(<<>>)

CostIdle ==
    /\ u_today = NoCost
    /\ u_day = NoDay

CoreIdle ==
    /\ FilterIdle /\ FinderIdle /\ ScorerIdle /\ AnalyzerIdle /\ PipeIdle

\* every component but one of those beside the pipeline is idle
OnlyViral ==
    /\ CoreIdle
    /\ GeoIdle
    /\ TrackerIdle
    /\ CredIdle
    /\ DashIdle
    /\ SingleIdle
    /\ BatchIdle
    /\ CostIdle

OnlyGeo ==
    /\ CoreIdle
    /\ ViralIdle
    /\ TrackerIdle
    /\ CredIdle
    /\ DashIdle
    /\ SingleIdle
    /\ BatchIdle
    /\ CostIdle

OnlyTracker ==
    /\ CoreIdle
    /\ ViralIdle
    /\ GeoIdle
    /\ CredIdle
    /\ DashIdle
    /\ SingleIdle
    /\ BatchIdle
    /\ CostIdle

OnlyCred ==
    /\ CoreIdle
    /\ ViralIdle
    /\ GeoIdle
    /\ TrackerIdle
    /\ DashIdle
    /\ SingleIdle
    /\ BatchIdle
    /\ CostIdle

OnlyDash ==
    /\ CoreIdle
    /\ ViralIdle
    /\ GeoIdle
    /\ TrackerIdle
    /\ CredIdle
    /\ SingleIdle
    /\ BatchIdle
    /\ CostIdle

OnlySingle ==
    /\ CoreIdle
    /\ ViralIdle
    /\ GeoIdle
    /\ TrackerIdle
    /\ CredIdle
    /\ DashIdle
    /\ BatchIdle
    /\ CostIdle

OnlyBatch ==
    /\ CoreIdle
    /\ ViralIdle
    /\ GeoIdle
    /\ TrackerIdle
    /\ CredIdle
    /\ DashIdle
    /\ SingleIdle
    /\ CostIdle

OnlyCost ==
    /\ CoreIdle
    /\ ViralIdle
    /\ GeoIdle
    /\ TrackerIdle
    /\ CredIdle
    /\ DashIdle
    /\ SingleIdle
    /\ BatchIdle

ExtIdle ==
    /\ ViralIdle
    /\ GeoIdle
    /\ TrackerIdle
    /\ CredIdle
    /\ DashIdle
    /\ SingleIdle
    /\ BatchIdle
    /\ CostIdle


FilterInit ==
    /\ fin \in SeqsUpTo(FilterSamples, MaxLen)
    /\ fop = "none"
    /\ fhours = 0
    /\ fres = Ok(<<>>)
    /\ FinderIdle
    /\ ScorerIdle
    /\ AnalyzerIdle
    /\ PipeIdle
    /\ ExtIdle

ApplyRemoveDuplicates ==
    /\ fop = "none"
    /\ fop' = "remove_duplicates"
    /\ fres' = Ok(remove_duplicates(fin))
    /\ UNCHANGED <<fin, fhours, finderVars, scorerVars, analyzerVars,
                   pipeVars, extVars>>

ApplyNormalizeFormat ==
    /\ fop = "none"
    /\ fop' = "normalize_format"
    /\ fres' = Ok(normalize_format(fin))
    /\ UNCHANGED <<fin, fhours, finderVars, scorerVars, analyzerVars,
                   pipeVars, extVars>>

ApplyFilterByDate ==
    /\ fop = "none"
    /\ \E hours \in FilterHours :
          /\ fhours' = hours
          /\ fres' = filter_by_date(fin, hours)
    /\ fop' = "filter_by_date"
    /\ UNCHANGED <<fin, finderVars, scorerVars, analyzerVars,
                   pipeVars, extVars>>

ApplyFilterByVertical ==
    /\ fop = "none"
    /\ \E vertical \in FilterVerticals :
          fres' = Ok(filter_by_vertical(fin, vertical))
    /\ fop' = "filter_by_vertical"
    /\ UNCHANGED <<fin, fhours, finderVars, scorerVars, analyzerVars,
                   pipeVars, extVars>>

ApplyRemoveEmptyPosts ==
    /\ fop = "none"
    /\ fop' = "remove_empty_posts"
    /\ fres' = Ok(remove_empty_posts(fin))
    /\ UNCHANGED <<fin, fhours, finderVars, scorerVars, analyzerVars,
                   pipeVars, extVars>>

ApplyFilterAndNormalize ==
    /\ fop = "none"
    /\ \E hours \in FilterHours, vertical \in FilterVerticals :
          /\ fhours' = hours
          /\ fres' = filter_and_normalize(fin, vertical, hours)
    /\ fop' = "filter_and_normalize"
    /\ UNCHANGED <<fin, finderVars, scorerVars, analyzerVars,
                   pipeVars, extVars>>

FilterNext ==
    \/ ApplyRemoveDuplicates
    \/ ApplyNormalizeFormat
    \/ ApplyFilterByDate
    \/ ApplyFilterByVertical
    \/ ApplyRemoveEmptyPosts
    \/ ApplyFilterAndNormalize

SpecFilter == FilterInit /\ [][FilterNext]_vars

(***************************************************************************)
(* Trend Finder specification: a list of analysed records drawn from       *)
(* samples, find_trends in either mode, then filter_relevant_trends.       *)
(***************************************************************************)
WithAnalysis(post, analysis) == [post EXCEPT !.ai_analysis = analysis]

nameThe == "The Lavender Latte"
namePlain == "Lavender Latte"

FinderSamples ==
    { WithAnalysis(Post("tiktok", "t1", "The lavender latte is back", 100, 10, 1, 2, At(0 - 3)),
                   Analysis(nameThe, "drink", "positive", 8, TRUE)),
      WithAnalysis(Post("reddit", "r1", "a hot take on iced latte", 40, 4, 0, 1, At(0 - 20)),
                   Analysis(nameThe, "drink", "neutral", 6, TRUE)),
      WithAnalysis(Post("reddit", "r2", "lavender latte review", 7, 0, 3, 0, At(0 - 5)),
                   Analysis(namePlain, "Drink", "positive", 9, TRUE)),
      WithAnalysis(Post("youtube", "y1", "Lavender latte with oat milk", 2000, 30, 5, 0, At(0 - 30)),
                   Analysis(namePlain, "drink", "negative", 4, TRUE)),
      WithAnalysis(Post("tiktok", "t2", "iced lavender latte, iced latte", 300, 20, 2, 2, At(0 - 1)),
                   Analysis("Iced Lavender Latte", PyNone, "positive", 7, TRUE)),
      WithAnalysis(Post("youtube", "y2", "matcha tonic and a croissant", 50, 5, 5, 5, NoDate),
                   Analysis("Matcha Tonic", "pastry", "neutral", 5, TRUE)),
      WithAnalysis(Post("tiktok", "t3", "my new phone", 9, 9, 9, 9, At(0 - 2)),
                   Analysis(PyNone, PyNone, "neutral", 5, FALSE)),
      [WithAnalysis(Post("reddit", "r3", "cold brew the coffee", 1, 1, 1, 1, At(0 - 40)),
                    NoneAnalysis) EXCEPT !.ai_error = TRUE] }

FinderInit ==
    /\ tin \in SeqsUpTo(FinderSamples, MaxFinderLen)
    /\ top = "none"
    /\ tfound = Ok(<<>>)
    /\ trelevant = Ok(<<>>)
    /\ FilterIdle
    /\ ScorerIdle
    /\ AnalyzerIdle
    /\ PipeIdle
    /\ ExtIdle

ApplyFindTrends(use_ai_analysis) ==
    /\ top = "none"
    /\ top' = IF use_ai_analysis THEN "find_ai" ELSE "find_text"
    /\ tfound' = find_trends(tin, use_ai_analysis)
    /\ UNCHANGED <<tin, trelevant, filterVars, scorerVars, analyzerVars,
                   pipeVars, extVars>>

ApplyFilterRelevant ==
    /\ top \in {"find_ai", "find_text"}
    /\ ~tfound.raised
    /\ \E vertical \in {"coffee", "restaurant"}, min_posts \in {1, 2} :
          trelevant' = filter_relevant_trends(tfound.val, vertical, min_posts)
    /\ top' = "relevant"
    /\ UNCHANGED <<tin, tfound, filterVars, scorerVars, analyzerVars,
                   pipeVars, extVars>>

FinderNext ==
    \/ ApplyFindTrends(TRUE)
    \/ ApplyFindTrends(FALSE)
    \/ ApplyFilterRelevant

SpecFinder == FinderInit /\ [][FinderNext]_vars

(***************************************************************************)
(* Trend Scorer specification: a list of one or two trends built from      *)
(* sample posts, and score_trends.                                         *)
(***************************************************************************)
ScoreSamples ==
    { Post("tiktok", "s1", "iced latte", 40000, 20000, 8000, 4000, At(0)),
      Post("reddit", "s2", "iced latte", 1000, 0, 0, 0, At(0 - 30)),
      Post("youtube", "s3", "iced latte", 1, 100000, 100000, 100000, At(24)),
      Post("googletrends", "s4", "iced latte", 0, 0, 0, 0, NoDate),
      Post("tiktok", "s5", "iced latte", 50, 1, 0, 0, At(300)),
      Post("youtube", "s6", "iced latte", 20000, 9, 9, 9, AtAware(0 - 2)),
      Post("reddit", "s7", "iced latte", 30000, 300, 1, 2, IsoStr(0 - 1)),
      Post("instagram", "s8", "iced latte", 7, 7, 0, 0, At(0 - 400)) }

\* one post on one platform, dated now, with 1000 views and nothing else
WorkedExamplePost ==
    Post("tiktok", "w1", "iced latte", 1000, 0, 0, 0, At(0))

\* the aggregate the Trend Finder builds from these posts
RECURSIVE AddPosts(_, _)
AddPosts(trend, posts) ==
    IF posts = <<>> THEN trend
    ELSE AddPosts(AddPost(trend, Head(posts)), Tail(posts))

TrendOf(posts) ==
    AddPosts(NewTrend("Iced Latte", "iced latte", "drink", "positive", 5), posts)

ScorerInit ==
    /\ \E posts \in SeqsUpTo(ScoreSamples, MaxScorePosts) :
       \E more \in {<<>>, <<TrendOf(<<>>)>>,
                    <<TrendOf(<<CHOOSE q \in ScoreSamples : q.post_id = "s2">>)>>,
                    <<TrendOf(<<WorkedExamplePost>>)>>} :
          sin = <<TrendOf(posts)>> \o more
    /\ sop = "none"
    /\ sres = Ok(<<>>)
    /\ FilterIdle
    /\ FinderIdle
    /\ AnalyzerIdle
    /\ PipeIdle
    /\ ExtIdle

ApplyScoreTrends ==
    /\ sop = "none"
    /\ sop' = "score_trends"
    /\ sres' = score_trends(sin)
    /\ UNCHANGED <<sin, filterVars, finderVars, analyzerVars,
                   pipeVars, extVars>>

ScorerNext == ApplyScoreTrends

SpecScorer == ScorerInit /\ [][ScorerNext]_vars

(***************************************************************************)
(* AI Analyzer specification: a list of sample records, and analyze_batch  *)
(* under every choice of batch size and of per-record results.             *)
(***************************************************************************)
AnalyzerSamples ==
    { Post("reddit", "r1", "The lavender latte is back", 100, 10, 1, 2, At(0 - 3)),
      Post("tiktok", "t1", "iced lavender latte, iced latte", 300, 20, 2, 2, At(0 - 1)),
      Post("tiktok", "t3", "my new phone", 9, 9, 9, 9, NoDate) }

\* what the model answers for a record, when it answers
AiAnswer(post) ==
    CASE post.post_id = "g1" ->
            Analysis("Lavender Latte", "drink", "positive", 8, TRUE)
      [] post.post_id = "r1" ->
            Analysis("The Lavender Latte", "drink", "positive", 7, TRUE)
      [] post.post_id = "t1" ->
            Analysis("Iced Lavender Latte", PyNone, "neutral", 6, TRUE)
      [] OTHER -> Analysis(PyNone, PyNone, "neutral", 5, FALSE)

\* the per-record results the environment can give for data
ResultChoices(data) ==
    { r \in [1..Len(data) -> {"analysis", "exception", "nonmapping"}] : TRUE }

ResultsOf(data, choice) ==
    [i \in 1..Len(data) |->
        CASE choice[i] = "analysis" -> Analysed(AiAnswer(data[i]))
          [] choice[i] = "exception" -> Failed
          [] OTHER -> NonMapping]

BatchSizes == {1, 2, 5}

AnalyzerInit ==
    /\ ain \in SeqsUpTo(AnalyzerSamples, MaxBatchLen)
    /\ aop = "none"
    /\ abatch = 0
    /\ aresults = <<>>
    /\ ares = [ret |-> Ok(<<>>), data |-> <<>>]
    /\ FilterIdle
    /\ FinderIdle
    /\ ScorerIdle
    /\ PipeIdle
    /\ ExtIdle

ApplyAnalyzeBatch ==
    /\ aop = "none"
    /\ \E batch_size \in BatchSizes, choice \in ResultChoices(ain) :
          /\ abatch' = batch_size
          /\ aresults' = ResultsOf(ain, choice)
          /\ ares' = analyze_batch(ain, ResultsOf(ain, choice), batch_size)
    /\ aop' = "analyze_batch"
    /\ UNCHANGED <<ain, filterVars, finderVars, scorerVars, pipeVars, extVars>>

AnalyzerNext == ApplyAnalyzeBatch

SpecAnalyzer == AnalyzerInit /\ [][AnalyzerNext]_vars

(***************************************************************************)
(* Pipeline specification: one run of run_pipeline ("cli") or of           *)
(* run_pipeline_async ("dashboard").  A collect call is two steps, its     *)
(* start and its return or exception; the statements between two awaits    *)
(* are steps in program order.  A collector returns a prefix of its feed.  *)
(***************************************************************************)
Feed(c) ==
    CASE c = 1 ->
           <<[Post("googletrends", "g1", "lavender latte", 60000, 0, 0, 0, At(0))
                 EXCEPT !.interest_score = Interest(60)],
             [Post("googletrends", "g2", "cold brew", 20000, 0, 0, 0, At(0 - 72))
                 EXCEPT !.interest_score = Interest(20)]>>
      [] c = 2 ->
           <<Post("reddit", "r1", "The lavender latte is back", 100, 10, 1, 2, At(0 - 3)),
             Post("reddit", "r2", "my new phone", 40, 4, 0, 1, At(0 - 5))>>
      [] c = 3 ->
           <<Post("youtube", "y1", "Lavender latte with oat milk", 2000, 30, 5, 0, AtAware(0 - 10)),
             Post("youtube", "y2", "espresso tonic", 50, 5, 5, 5, AtAware(0 - 60))>>
      [] OTHER ->
           <<Post("tiktok", "t1", "iced lavender latte, iced latte", 300, 20, 2, 2, At(0 - 1)),
             Post("tiktok", "t2", "lavender latte review", 7, 0, 3, 0, At(0 - 49))>>

RunArgs ==
    {[mode |-> "cli", vertical |-> "coffee", hours |-> 48, use_ai |-> TRUE]}
    \cup {[mode |-> "dashboard", vertical |-> "coffee", hours |-> h,
           use_ai |-> u] : h \in {48, 24}, u \in BOOLEAN}

PipeInit ==
    /\ args \in RunArgs
    /\ pc = "collect"
    /\ collector_i = 1
    /\ status = [c \in 1..Len(Collectors) |-> "pending"]
    /\ calls = [c \in 1..Len(Collectors) |-> 0]
    /\ outputs = [c \in 1..Len(Collectors) |-> Ok(<<>>)]
    /\ run_raw_data = <<>>
    /\ run_filtered_data = <<>>
    /\ ai_results = <<>>
    /\ run_analyzed_data = <<>>
    /\ run_use_ai = FALSE
    /\ run_trends = <<>>
    /\ run_scored_trends = <<>>
    /\ run_top_3 = <<>>
    /\ invoked = {}
    /\ returned = "none"
    /\ FilterIdle
    /\ FinderIdle
    /\ ScorerIdle
    /\ AnalyzerIdle
    /\ ExtIdle

otherVars ==
    <<filterVars, finderVars, scorerVars, analyzerVars, extVars>>

\* collectors started as tasks: a collect may start while earlier ones run
CollectStartAny(c) ==
    /\ pc = "collect"
    /\ status[c] = "pending"
    /\ status' = [status EXCEPT ![c] = "running"]
    /\ calls' = [calls EXCEPT ![c] = @ + 1]
    /\ UNCHANGED <<args, pc, collector_i, outputs, run_raw_data,
                   run_filtered_data, ai_results, run_analyzed_data,
                   run_use_ai, run_trends, run_scored_trends, run_top_3,
                   invoked, returned, otherVars>>

\* "data = await collector.collect(...)": the loop calls collector c when it
\* is at c, which is after the call of every earlier collector has ended
CollectStart(c) ==
    /\ pc = "collect"
    /\ collector_i = c
    /\ status[c] = "pending"
    /\ status' = [status EXCEPT ![c] = "running"]
    /\ calls' = [calls EXCEPT ![c] = @ + 1]
    /\ UNCHANGED <<args, pc, collector_i, outputs, run_raw_data,
                   run_filtered_data, ai_results, run_analyzed_data,
                   run_use_ai, run_trends, run_scored_trends, run_top_3,
                   invoked, returned, otherVars>>

\* collect returns data: raw_data.extend(data), and the loop moves on
CollectReturn(c) ==
    /\ status[c] = "running"
    /\ \E n \in 0..Min(Len(Feed(c)), MaxRaw - Len(run_raw_data)) :
          /\ outputs' = [outputs EXCEPT ![c] = Ok(Prefix(Feed(c), n))]
          /\ run_raw_data' = run_raw_data \o Prefix(Feed(c), n)
    /\ status' = [status EXCEPT ![c] = "returned"]
    /\ collector_i' = c + 1
    /\ UNCHANGED <<args, pc, calls, run_filtered_data, ai_results,
                   run_analyzed_data, run_use_ai, run_trends,
                   run_scored_trends, run_top_3, invoked, returned,
                   otherVars>>

\* a loop without the try: a raising collect ends the collection
CollectRaiseAbort(c) ==
    /\ status[c] = "running"
    /\ outputs' = [outputs EXCEPT ![c] = Raised]
    /\ status' = [status EXCEPT ![c] = "raised"]
    /\ collector_i' = Len(Collectors) + 1
    /\ UNCHANGED <<args, pc, calls, run_raw_data, run_filtered_data,
                   ai_results, run_analyzed_data, run_use_ai, run_trends,
                   run_scored_trends, run_top_3, invoked, returned,
                   otherVars>>

\* collect raises: "except Exception: continue"
CollectRaise(c) ==
    /\ status[c] = "running"
    /\ outputs' = [outputs EXCEPT ![c] = Raised]
    /\ status' = [status EXCEPT ![c] = "raised"]
    /\ collector_i' = c + 1
    /\ UNCHANGED <<args, pc, calls, run_raw_data, run_filtered_data,
                   ai_results, run_analyzed_data, run_use_ai, run_trends,
                   run_scored_trends, run_top_3, invoked, returned,
                   otherVars>>

\* after the loop: the empty check of run_pipeline, then
\* DataFilter.filter_and_normalize, whose exception ends the run
FilterStep ==
    /\ pc = "collect"
    /\ collector_i > Len(Collectors)
    /\ IF EmptyShortCircuit(args.mode, run_raw_data)
       THEN /\ pc' = "done"
            /\ returned' = "empty"
            /\ UNCHANGED <<run_filtered_data, run_analyzed_data, invoked>>
       ELSE \E r \in {filter_and_normalize(run_raw_data, args.vertical,
                                            args.hours)} :
                /\ invoked' = invoked \cup {"DataFilter"}
                /\ pc' = IF r.raised THEN "crashed" ELSE "analyze"
                /\ run_filtered_data' = IF r.raised THEN <<>> ELSE r.val
                /\ run_analyzed_data' = IF r.raised THEN <<>> ELSE r.val
                /\ UNCHANGED returned
    /\ UNCHANGED <<args, collector_i, status, calls, outputs, run_raw_data,
                   ai_results, run_use_ai, run_trends, run_scored_trends,
                   run_top_3, otherVars>>

\* "analyzed_data = await AIAnalyzer.analyze_batch(filtered_data,
\* batch_size=5)" in its try; the records of filtered_data are annotated in
\* place whether the call returns or raises
AnalyzeStep ==
    /\ pc = "analyze"
    /\ args.use_ai
    /\ \E choice \in ResultChoices(run_filtered_data) :
          \E results \in {ResultsOf(run_filtered_data, choice)} :
          \E r \in {analyze_batch(run_filtered_data, results, 5)} :
              /\ ai_results' = results
              /\ run_filtered_data' = r.data
              /\ run_analyzed_data' = IF r.ret.raised THEN r.data
                                      ELSE r.ret.val
              /\ run_use_ai' = ~r.ret.raised
    /\ invoked' = invoked \cup {"AIAnalyzer"}
    /\ pc' = "find"
    /\ UNCHANGED <<args, collector_i, status, calls, outputs, run_raw_data,
                   run_trends, run_scored_trends, run_top_3, returned,
                   otherVars>>

\* run_pipeline_async with use_ai off: no AI step, use_ai_analysis = False
SkipAnalyze ==
    /\ pc = "analyze"
    /\ ~args.use_ai
    /\ run_use_ai' = FALSE
    /\ pc' = "find"
    /\ UNCHANGED <<args, collector_i, status, calls, outputs, run_raw_data,
                   run_filtered_data, ai_results, run_analyzed_data,
                   run_trends, run_scored_trends, run_top_3, invoked,
                   returned, otherVars>>

\* what the try around find_trends and filter_relevant_trends leaves in
\* trends: on an exception run_pipeline sets trends = [], run_pipeline_async
\* leaves trends as it is
TrendsAfterFilter(mode, found, relevant) ==
    IF ~relevant.raised THEN relevant.val
    ELSE IF mode = "cli" THEN <<>>
    ELSE found.val

TrendsAfterFind(mode, vertical, found) ==
    IF found.raised THEN <<>>
    ELSE TrendsAfterFilter(mode, found,
                           filter_relevant_trends(found.val, vertical, 1))

FindStep ==
    /\ pc = "find"
    /\ run_trends' = TrendsAfterFind(args.mode, args.vertical,
                          find_trends(run_analyzed_data, run_use_ai))
    /\ invoked' = invoked \cup {"TrendFinder"}
    /\ pc' = "score"
    /\ UNCHANGED <<args, collector_i, status, calls, outputs, run_raw_data,
                   run_filtered_data, ai_results, run_analyzed_data,
                   run_use_ai, run_scored_trends, run_top_3, returned,
                   otherVars>>

\* "if trends:" score, sort by uts_score and keep the first three; then the
\* run returns its result.  An exception of score_trends ends the run.
ScoreStep ==
    /\ pc = "score"
    /\ IF run_trends = <<>>
       THEN /\ pc' = "done"
            /\ returned' = "result"
            /\ UNCHANGED <<run_scored_trends, run_top_3, invoked>>
       ELSE \E r \in {score_trends(run_trends)} :
            \E sorted \in {IF r.raised THEN <<>> ELSE SortByUts(r.val)} :
                /\ invoked' = invoked \cup {"TrendScorer"}
                /\ pc' = IF r.raised THEN "crashed" ELSE "done"
                /\ returned' = IF r.raised THEN "none" ELSE "result"
                /\ run_scored_trends' = sorted
                /\ run_top_3' = Prefix(sorted, 3)
    /\ UNCHANGED <<args, collector_i, status, calls, outputs, run_raw_data,
                   run_filtered_data, ai_results, run_analyzed_data,
                   run_use_ai, run_trends, otherVars>>

PipeNext ==
    \/ \E c \in 1..Len(Collectors) : CollectStart(c)
    \/ \E c \in 1..Len(Collectors) : CollectReturn(c)
    \/ \E c \in 1..Len(Collectors) : CollectRaise(c)
    \/ FilterStep
    \/ AnalyzeStep
    \/ SkipAnalyze
    \/ FindStep
    \/ ScoreStep

SpecPipeline == PipeInit /\ [][PipeNext]_vars

(***************************************************************************)
(* Viral Content Filter specification: an input list drawn from sample     *)
(* records, and one action per public or internal filtering operation.     *)
(***************************************************************************)
ViralSamples ==
    { Post("tiktok", "v1", "latte art tutorial", 500, 400, 300, 200, NoDate),
      Post("tiktok", "v2", cOff, 2000, 100, 0, 0, NoDate),
      Post("reddit", "v3", cOff, 2000, 100, 9, 9, NoDate),
      Post("reddit", "v4", "cold brew recipe", 2000, 100, 0, 0, NoDate),
      Post("youtube", "v5", cShort, 1000, 49, 50, 50, NoDate),
      Post("youtube", "v6", cShort, 6000, 50, 0, 0, NoDate),
      Post("reddit", "v7", "espresso review", 1000, 50, 0, 0, NoDate),
      [Post("googletrends", "v8", "latte", 60000, 0, 0, 0, NoDate)
          EXCEPT !.interest_score = Interest(60)],
      [Post("google_trends", "v9", cOff, 0, 0, 0, 0, NoDate)
          EXCEPT !.interest_score = Interest(60)],
      [Post("google_trends", "v10", "latte", 900, 0, 0, 0, NoDate)
          EXCEPT !.interest_score = Interest(49)],
      WithAnalysis(Post("reddit", "v11", cOff, 20000, 1000, 10, 10, NoDate),
                   Analysis(namePlain, "drink", "positive", 8, TRUE)),
      WithAnalysis(Post("reddit", "v12", "latte", 2000, 100, 0, 0, NoDate),
                   [NoAnalysis EXCEPT !.k = "junk"]) }

\* the default of min_engagement, the engagement of a record with 2000
\* views and 100 likes and nothing else, and one more
ViralMinEngagements == {100, 3000, 3001}
ViralVerticals == {"coffee", "barbershop"}

ViralInit ==
    /\ vin \in SeqsUpTo(ViralSamples, MaxViralLen)
    /\ vop = "none"
    /\ vvertical = ""
    /\ vmin = 0
    /\ vres = Ok(<<>>)
    /\ OnlyViral

ApplyFilterBusinessRelevant ==
    /\ vop = "none"
    /\ \E vertical \in ViralVerticals :
          /\ vvertical' = vertical
          /\ vres' = filter_business_relevant(AnnotateAll(vin), vertical)
    /\ vop' = "filter_business_relevant"
    /\ UNCHANGED <<vin, vmin, notViralVars>>

ApplyFilterViralContent ==
    /\ vop = "none"
    /\ \E min_engagement \in ViralMinEngagements :
          /\ vmin' = min_engagement
          /\ vres' = Ok(filter_viral_content(AnnotateAll(vin),
                                             min_engagement))
    /\ vop' = "filter_viral_content"
    /\ UNCHANGED <<vin, vvertical, notViralVars>>

ApplyFilterTrendingContent ==
    /\ vop = "none"
    /\ \E vertical \in ViralVerticals,
          min_engagement \in ViralMinEngagements,
          prioritize_viral \in BOOLEAN :
          /\ vvertical' = vertical
          /\ vmin' = min_engagement
          /\ vres' = filter_trending_content(AnnotateAll(vin), vertical,
                                             min_engagement, prioritize_viral)
    /\ vop' = "filter_trending_content"
    /\ UNCHANGED <<vin, notViralVars>>

ViralNext ==
    \/ ApplyFilterBusinessRelevant
    \/ ApplyFilterViralContent
    \/ ApplyFilterTrendingContent

SpecViral == ViralInit /\ [][ViralNext]_vars

(***************************************************************************)
(* Geography specification: a location drawn from the tables and from      *)
(* texts outside them, and the call of location_to_geo_code.               *)
(***************************************************************************)
Loc(s) == [k |-> "str", s |-> s]
NoLoc == [k |-> "none", s |-> ""]

GeoSamples ==
    {NoLoc} \cup
    {Loc(s) : s \in
        {"", "  ", "Nowhereville", "Chicago,", "Chicago, ", "Chicago, L",
         "Austin, X", "Paris, France", "Chicago, Illinoi", " US-IL ",
         "US-ZZ", "us-il", "US-ILL", "IL", "Springfield, il",
         "Chicago, Cook County, Illinois", "Illinois, Chicago", "new york",
         "TEXAS", "Washington, D.C.", "Boston, US-MA"}} \cup
    {Loc(US_STATE_CODES[i][1]) : i \in 1..Len(US_STATE_CODES)} \cup
    {Loc(US_STATE_CODES[i][2]) : i \in 1..Len(US_STATE_CODES)} \cup
    {Loc("Springfield, " \o US_STATE_CODES[i][1]) :
        i \in 1..Len(US_STATE_CODES)} \cup
    {Loc("Springfield," \o Lower(CodeSuffix(US_STATE_CODES[i][2]))) :
        i \in 1..Len(US_STATE_CODES)} \cup
    {Loc(Upper(CITY_CODES[i][1])) : i \in 1..Len(CITY_CODES)}

GeoInit ==
    /\ gin \in GeoSamples
    /\ gop = "none"
    /\ gres = ""
    /\ OnlyGeo

ApplyLocationToGeoCode ==
    /\ gop = "none"
    /\ gop' = "location_to_geo_code"
    /\ gres' = location_to_geo_code(gin)
    /\ UNCHANGED <<gin, notGeoVars>>

GeoNext == ApplyLocationToGeoCode

SpecGeo == GeoInit /\ [][GeoNext]_vars

(***************************************************************************)
(* Usage Tracker specification: one process that obtains the singleton     *)
(* tracker over a usage file in one of the sample states, and makes        *)
(* tracking calls while the days pass.  The YouTube Collector tracks while *)
(* the run collects and the AI Analyzer while it analyses, which           *)
(* run_pipeline starts after the loop over the collectors; the other       *)
(* track_ methods are called by no component and are taken up at any time. *)
(* SpecTracker makes a few calls with varied arguments and write outcomes; *)
(* SpecHistory makes a long row of calls for one service.                  *)
(***************************************************************************)
MaxTrackerEvents == 2
MaxHistoryEvents == 150
MaxDay == 2

\* a file that an earlier process wrote on day 0
EarlierStore ==
    [get_default_data(0) EXCEPT
        !.reddit = [total_requests |-> 2, requests_today |-> 2,
                    last_reset |-> 0,
                    history |-> <<PlainEntry(Timestamp(0, 1)),
                                  PlainEntry(Timestamp(0, 2))>>],
        !.youtube = [total_requests |-> 1, total_quota_units |-> 100,
                     requests_today |-> 1, quota_today |-> 100,
                     last_reset |-> 0,
                     history |-> <<YoutubeEntry(100, Timestamp(0, 3))>>],
        !.claude = [total_requests |-> 1, total_tokens_input |-> 1200,
                    total_tokens_output |-> 300, total_cost_usd |-> 8100,
                    requests_today |-> 1, tokens_today |-> 1500,
                    cost_today |-> 8100, last_reset |-> 0,
                    history |-> <<ClaudeEntry(1200, 300, Timestamp(0, 4))>>]]

\* valid JSON in which reddit lacks its daily fields, youtube its totals,
\* claude its history, and apify and google_trends are absent
PartialStore ==
    [reddit |-> [total_requests |-> 5, history |-> <<>>],
     youtube |-> [requests_today |-> 0, quota_today |-> 0, last_reset |-> 0,
                  history |-> <<>>],
     claude |-> [total_requests |-> 0, total_tokens_input |-> 0,
                 total_tokens_output |-> 0, total_cost_usd |-> 0,
                 requests_today |-> 0, tokens_today |-> 0, cost_today |-> 0,
                 last_reset |-> 0]]

StoreSamples ==
    {StoreFile("missing", EmptyDict), StoreFile("unreadable", EmptyDict),
     StoreFile("invalid", EmptyDict), StoreFile("json", EmptyDict),
     StoreFile("json", get_default_data(0)), StoreFile("json", EarlierStore),
     StoreFile("json", PartialStore)}

ShortRun == t_focus = "any"
EventLimit == IF ShortRun THEN MaxTrackerEvents ELSE MaxHistoryEvents

\* <<cost_usd, items_collected>> of an actor run
ApifyRuns == IF ShortRun THEN {<<20000, 10>>, <<0, 0>>} ELSE {<<20000, 10>>}
\* <<input_tokens, output_tokens>> of a request
ClaudeUsages ==
    IF ShortRun THEN {<<1000000, 0>>, <<0, 1000000>>, <<1200, 300>>}
    ELSE {<<1200, 300>>}
\* search().list costs 100 units and videos().list 1
QuotaUnits == IF ShortRun THEN {100, 1} ELSE {100}
Outcomes == IF ShortRun THEN WriteOutcomes ELSE {"ok"}

TrackerInit ==
    /\ t_store \in StoreSamples
    /\ t_created = FALSE
    /\ t_data = EmptyDict
    /\ t_loaded = EmptyDict
    /\ t_day = 0
    /\ t_calls = 0
    /\ t_log = <<>>
    /\ t_res = "none"
    /\ t_stage = "collect"
    /\ t_focus = "any"
    /\ OnlyTracker

HistoryInit ==
    /\ t_store = StoreFile("missing", EmptyDict)
    /\ t_created = FALSE
    /\ t_data = EmptyDict
    /\ t_loaded = EmptyDict
    /\ t_day = 0
    /\ t_calls = 0
    /\ t_log = <<>>
    /\ t_res = "none"
    /\ t_stage \in {"collect", "analyze"}
    /\ t_focus \in Services
    /\ OnlyTracker

\* get_usage_tracker() when _tracker is None: UsageTracker() loads the file
GetUsageTracker ==
    /\ ~t_created
    /\ t_created' = TRUE
    /\ \E d \in {load_data(t_store, t_day)} :
          /\ t_data' = d
          /\ t_loaded' = d
    /\ UNCHANGED <<t_store, t_day, t_calls, t_log, t_res, t_stage, t_focus,
                   notTrackerVars>>

\* a track_ call with the outcome r of its body: a call that raises saves
\* nothing; t_res tells a raised call from one whose write went through
\* ("saved") and one whose write failed and was swallowed ("unsaved")
Tracked(service, r, entry) ==
    /\ t_data' = r.data
    /\ t_log' = IF r.raised THEN t_log
                ELSE Append(t_log, [service |-> service, day |-> t_day,
                                    entry |-> entry])
    /\ IF r.raised THEN t_store' = t_store /\ t_res' = "KeyError"
       ELSE \E outcome \in Outcomes :
               /\ t_store' = save_data(r.data, outcome, t_store, t_loaded,
                                       service)
               /\ t_res' = IF outcome = "ok" THEN "saved" ELSE "unsaved"
    /\ t_calls' = t_calls + 1
    /\ UNCHANGED <<t_created, t_loaded, t_day, t_stage, t_focus,
                   notTrackerVars>>

CanTrack(service) ==
    /\ t_created
    /\ t_calls < EventLimit
    /\ t_focus \in {"any", service}

TrackApifyRun ==
    /\ CanTrack("apify")
    /\ \E run \in ApifyRuns :
          Tracked("apify",
                  track_apify_run(t_data, "clockworks/tiktok-scraper",
                                  run[1], run[2], t_day, t_calls + 1),
                  ApifyEntry("clockworks/tiktok-scraper", run[1], run[2],
                             Timestamp(t_day, t_calls + 1)))

\* AIAnalyzer._analyze_single, after the API answered
TrackClaudeRequest ==
    /\ CanTrack("claude")
    /\ t_stage = "analyze"
    /\ \E u \in ClaudeUsages :
          Tracked("claude",
                  track_claude_request(t_data, u[1], u[2], t_day,
                                       t_calls + 1),
                  ClaudeEntry(u[1], u[2], Timestamp(t_day, t_calls + 1)))

\* YouTubeCollector.collect, after a search or a videos request
TrackYoutubeRequest ==
    /\ CanTrack("youtube")
    /\ t_stage = "collect"
    /\ \E q \in QuotaUnits :
          Tracked("youtube",
                  track_youtube_request(t_data, q, t_day, t_calls + 1),
                  YoutubeEntry(q, Timestamp(t_day, t_calls + 1)))

TrackRedditRequest ==
    /\ CanTrack("reddit")
    /\ Tracked("reddit", track_reddit_request(t_data, t_day, t_calls + 1),
               PlainEntry(Timestamp(t_day, t_calls + 1)))

TrackGoogleTrendsRequest ==
    /\ CanTrack("google_trends")
    /\ Tracked("google_trends",
               track_google_trends_request(t_data, t_day, t_calls + 1),
               PlainEntry(Timestamp(t_day, t_calls + 1)))

\* the loop over the collectors is over and the analysis begins
StartAnalysis ==
    /\ ShortRun
    /\ t_stage = "collect"
    /\ t_stage' = "analyze"
    /\ UNCHANGED <<t_store, t_created, t_data, t_loaded, t_day, t_calls,
                   t_log, t_res, t_focus, notTrackerVars>>

\* midnight passes
NextDay ==
    /\ ShortRun
    /\ t_day < MaxDay
    /\ t_day' = t_day + 1
    /\ UNCHANGED <<t_store, t_created, t_data, t_loaded, t_calls, t_log,
                   t_res, t_stage, t_focus, notTrackerVars>>

TrackingNext ==
    \/ GetUsageTracker
    \/ TrackApifyRun
    \/ TrackClaudeRequest
    \/ TrackYoutubeRequest
    \/ TrackRedditRequest
    \/ TrackGoogleTrendsRequest

TrackerNext ==
    \/ TrackingNext
    \/ StartAnalysis
    \/ NextDay

SpecTracker == TrackerInit /\ [][TrackerNext]_vars

HistoryNext == TrackingNext

SpecHistory == HistoryInit /\ [][HistoryNext]_vars

(***************************************************************************)
(* Collectors specification: the settings hold each credential or not;     *)
(* run_pipeline builds the four collectors and calls collect on each in    *)
(* turn, inside try/except.                                                *)
(***************************************************************************)
MaxCalls == 2

CredentialValues == {PyNone, "", "key"}

SettingsSamples ==
    [reddit_client_id : {PyNone, "key"}, reddit_client_secret : CredentialValues,
     youtube_api_key : CredentialValues, apify_api_key : {PyNone, "key"}]

\* what _collect_sync of collector c can do: only the YouTube Collector
\* tracks, once after each request that succeeded
LiveOutcomes(c) ==
    {r \in [out : {Ok(<<>>), Ok(Feed(c)), Raised}, ext : 1..MaxCalls,
            tracked : 0..MaxCalls] :
        IF Collectors[c] = "YouTubeCollector" THEN r.tracked <= r.ext
        ELSE r.tracked = 0}

CollectorsInit ==
    /\ k_settings \in SettingsSamples
    /\ k_clients = [c \in 1..Len(Collectors) |-> "unbuilt"]
    /\ k_i = 0
    /\ k_out = [c \in 1..Len(Collectors) |-> Ok(<<>>)]
    /\ k_ext = [c \in 1..Len(Collectors) |-> 0]
    /\ k_tracked = [c \in 1..Len(Collectors) |-> 0]
    /\ k_raw = <<>>
    /\ OnlyCred

\* collectors = [GoogleTrendsCollector(), RedditCollector(), ...]
BuildCollectors ==
    /\ k_i = 0
    /\ k_clients' = [c \in 1..Len(Collectors) |-> ClientOf(c, k_settings)]
    /\ k_i' = 1
    /\ UNCHANGED <<k_settings, k_out, k_ext, k_tracked, k_raw, notCredVars>>

\* one turn of the loop: the awaited collect, then raw_data.extend(data),
\* or the except branch
CollectTurn ==
    /\ k_i \in 1..Len(Collectors)
    /\ \E live \in LiveOutcomes(k_i) :
          \E r \in {collect(k_clients[k_i], live)} :
              /\ k_out' = [k_out EXCEPT ![k_i] = r.out]
              /\ k_ext' = [k_ext EXCEPT ![k_i] = r.ext]
              /\ k_tracked' = [k_tracked EXCEPT ![k_i] = r.tracked]
              /\ k_raw' = IF r.out.raised THEN k_raw ELSE k_raw \o r.out.val
    /\ k_i' = k_i + 1
    /\ UNCHANGED <<k_settings, k_clients, notCredVars>>

CollectorsNext ==
    \/ BuildCollectors
    \/ CollectTurn

SpecCollectors == CollectorsInit /\ [][CollectorsNext]_vars

(***************************************************************************)
(* Dashboard specification: the renders of one session.  A render is       *)
(* triggered by a press of the run button, by another widget or the first  *)
(* load, or by st.rerun(); the pipeline run of a render returns its dict   *)
(* or raises.                                                              *)
(***************************************************************************)
MaxRuns == 2
MaxCollected == 1

SidebarInputs ==
    [vertical : {"coffee", "barbershop"}, use_ai : BOOLEAN, hours : {24, 48}]

DashInit ==
    /\ d_inputs \in SidebarInputs
    /\ d_flag = FALSE
    /\ d_results = NoResults
    /\ d_render = "none"
    /\ d_ran = FALSE
    /\ d_before = NoResults
    /\ d_returned = <<>>
    /\ d_shown = NoResults
    /\ d_rerun = FALSE
    /\ d_runs = 0
    /\ OnlyDash

\* one run of the script with the button pressed or not
Render(kind, pressed, inputs) ==
    /\ d_render' = kind
    /\ d_inputs' = inputs
    /\ d_before' = d_results
    /\ \E flag \in {run_flag(pressed, d_flag)} :
          /\ d_ran' = flag
          /\ IF flag
             THEN \/ \E raw \in 0..MaxCollected :
                        \E results \in {PipelineResult(inputs, d_runs + 1,
                                                       raw)} :
                            \* the run returns: the results are stored, the
                            \* flag is cleared and st.rerun() ends the script
                            /\ d_results' = Stored(results)
                            /\ d_returned' = results
                            /\ d_flag' = FALSE
                            /\ d_rerun' = TRUE
                            /\ d_shown' = NoResults
                  \/ \* the run raises: the script ends there
                     /\ d_flag' = flag
                     /\ d_rerun' = FALSE
                     /\ d_shown' = NoResults
                     /\ UNCHANGED <<d_results, d_returned>>
             ELSE /\ d_flag' = flag
                  /\ d_rerun' = FALSE
                  /\ d_shown' = Displayed(d_results)
                  /\ UNCHANGED <<d_results, d_returned>>
          /\ d_runs' = IF flag THEN d_runs + 1 ELSE d_runs
    /\ UNCHANGED notDashVars

\* the user presses the run button
RenderOnPress ==
    /\ ~d_rerun
    /\ d_runs < MaxRuns
    /\ Render("press", TRUE, d_inputs)

\* the first load, or the user changes a sidebar widget
RenderOnWidget ==
    /\ ~d_rerun
    /\ \E inputs \in SidebarInputs : Render("widget", FALSE, inputs)

\* the render that st.rerun() asked for
RenderOnRerun ==
    /\ d_rerun
    /\ Render("rerun", FALSE, d_inputs)

DashNext ==
    \/ RenderOnPress
    \/ RenderOnWidget
    \/ RenderOnRerun

SpecDashboard == DashInit /\ [][DashNext]_vars

(***************************************************************************)
(* Single-record specification: one call of _analyze_single.  An attempt   *)
(* is one step, from the model call to the return, the raise or the start  *)
(* of the sleep; the end of the sleep is another step.  The model call     *)
(* returns or raises and the sleep ends, hence the weak fairness.          *)
(***************************************************************************)
MaxAttempts == 3

ModelErrors == {"RateLimitError", "APIError", "RuntimeError"}

ReplySamples ==
    {Reply(FALSE, "text", {}),
     Reply(TRUE, "object", required_fields),
     Reply(TRUE, "object", required_fields \ {"category"}),
     Reply(TRUE, "object", {}),
     Reply(TRUE, "number", {}),
     Reply(TRUE, "string", required_fields),
     Reply(TRUE, "list", {"item_name"})}

SampleAnalysis == Analysis("matcha latte", "drink", "positive", 8, TRUE)

CallOutcomes ==
    {CallRaises(err) : err \in ModelErrors}
    \cup {Call(FALSE, "", reply, SampleAnalysis, 900, 120) :
            reply \in ReplySamples}

\* the usage file has no claude section, or there is no file
TrackerStores == {StoreFile("missing", EmptyDict), StoreFile("json", EmptyDict)}

SingleInit ==
    /\ CoreIdle /\ OnlySingle
    /\ r_store \in TrackerStores
    /\ r_max \in 1..MaxAttempts
    /\ r_attempt = 0
    /\ r_pc = "call"
    /\ r_calls = 0
    /\ r_good = 0
    /\ r_tracked = 0
    /\ r_waits = <<>>
    /\ r_last = NoCall
    /\ r_res = [k |-> "none", val |-> NoneAnalysis, err |-> ""]

\* one pass of the body of the for loop
ModelCall ==
    /\ r_pc = "call"
    /\ r_attempt < r_max
    /\ \E call \in CallOutcomes :
         LET body == try_body(call, load_data(r_store, 0))
             step == handle_attempt(body.out, r_attempt, r_max)
         IN  /\ r_last' = call
             /\ r_calls' = r_calls + 1
             /\ r_good' = r_good + (IF call.raised THEN 0 ELSE 1)
             /\ r_tracked' = r_tracked + body.tracked
             /\ IF step.k = "retry"
                THEN /\ r_pc' = "sleep"
                     /\ r_waits' = Append(r_waits, wait_time(r_attempt))
                     /\ UNCHANGED r_res
                ELSE /\ r_pc' = "done"
                     /\ r_res' = step
                     /\ UNCHANGED r_waits
    /\ UNCHANGED <<r_store, r_max, r_attempt>>
    /\ UNCHANGED notSingleVars

\* asyncio.sleep returns and continue starts the next attempt
Resume ==
    /\ r_pc = "sleep"
    /\ r_pc' = "call"
    /\ r_attempt' = r_attempt + 1
    /\ UNCHANGED <<r_store, r_max, r_calls, r_good, r_tracked, r_waits,
                   r_last, r_res>>
    /\ UNCHANGED notSingleVars

SingleNext == ModelCall \/ Resume

SpecSingle == SingleInit /\ [][SingleNext]_vars /\ WF_vars(SingleNext)

(***************************************************************************)
(* Batch specification: one call of analyze_batch, a step for the start of *)
(* a batch, for each result that arrives, and for the loop over the        *)
(* results of a batch once gather has returned.                            *)
(***************************************************************************)
BatchInit ==
    /\ CoreIdle /\ OnlyBatch
    /\ q_data \in SeqsUpTo(AnalyzerSamples, MaxBatchLen)
    /\ q_size \in BatchSizes
    /\ q_pc = "loop"
    /\ q_first = 1
    /\ q_submitted = {}
    /\ q_results = [i \in 1..Len(q_data) |-> Pending]
    /\ q_analyzed = <<>>
    /\ q_ret = Ok(<<>>)

\* tasks = [...]; asyncio.gather(*tasks): the records of the batch are
\* handed to _analyze_single
StartBatch ==
    /\ q_pc = "loop"
    /\ q_first <= Len(q_data)
    /\ q_submitted' =
          q_submitted \cup (q_first..batch_last(q_data, q_first, q_size))
    /\ q_pc' = "gather"
    /\ UNCHANGED <<q_data, q_size, q_first, q_results, q_analyzed, q_ret>>
    /\ UNCHANGED notBatchVars

\* one _analyze_single returns or raises
Resolve ==
    /\ q_pc = "gather"
    /\ \E i \in q_submitted, kind \in {"analysis", "exception", "nonmapping"} :
          /\ q_results[i] = Pending
          /\ q_results' =
                [q_results EXCEPT ![i] =
                    CASE kind = "analysis" -> Analysed(AiAnswer(q_data[i]))
                      [] kind = "exception" -> Failed
                      [] OTHER -> NonMapping]
    /\ UNCHANGED <<q_data, q_size, q_pc, q_first, q_submitted, q_analyzed,
                   q_ret>>
    /\ UNCHANGED notBatchVars

\* gather has returned: the loop over zip(batch, results), then the pause
\* and the next batch
CollectBatch ==
    /\ q_pc = "gather"
    /\ LET last == batch_last(q_data, q_first, q_size)
       IN  /\ gather_returns(q_results, q_first, last)
           /\ q_analyzed' =
                 q_analyzed \o BatchLoop(q_data, q_results, q_first,
                                         last).analyzed
           /\ q_first' = q_first + q_size
    /\ q_pc' = "loop"
    /\ UNCHANGED <<q_data, q_size, q_submitted, q_results, q_ret>>
    /\ UNCHANGED notBatchVars

\* the batches are exhausted (or data is empty): the count of the relevant
\* records, which raises on an analysis that is not an object, and return
ReturnBatch ==
    /\ q_pc = "loop"
    /\ q_first > Len(q_data)
    /\ q_ret' = IF \E i \in 1..Len(q_analyzed) :
                      q_analyzed[i].ai_analysis.k = "junk"
                THEN Raised ELSE Ok(q_analyzed)
    /\ q_pc' = "done"
    /\ UNCHANGED <<q_data, q_size, q_first, q_submitted, q_results,
                   q_analyzed>>
    /\ UNCHANGED notBatchVars

BatchNext == StartBatch \/ Resolve \/ CollectBatch \/ ReturnBatch

SpecBatch == BatchInit /\ [][BatchNext]_vars

(***************************************************************************)
(* Grouping specification: the Trend Finder over analysed records whose    *)
(* names are similar in pairs but not all to each other: "latte" is part   *)
(* of "iced latte" and of "latte art", which are not similar.              *)
(***************************************************************************)
MaxGroupLen == 3

GroupSamples ==
    { WithAnalysis(Post("tiktok", "a1", "iced latte", 100, 10, 1, 2, At(0 - 3)),
                   Analysis("Iced Latte", "drink", "positive", 6, TRUE)),
      WithAnalysis(Post("reddit", "a2", "latte", 40, 4, 0, 1, At(0 - 20)),
                   Analysis("Latte", "coffee", "neutral", 9, TRUE)),
      WithAnalysis(Post("youtube", "a3", "latte art", 2000, 30, 5, 0, At(0 - 30)),
                   Analysis("Latte Art", "art", "negative", 4, TRUE)),
      WithAnalysis(Post("reddit", "a4", "one more latte", 7, 0, 3, 0, At(0 - 5)),
                   Analysis("Latte", "drink", "positive", 7, TRUE)) }

GroupInit ==
    /\ tin \in SeqsUpTo(GroupSamples, MaxGroupLen)
    /\ top = "none"
    /\ tfound = Ok(<<>>)
    /\ trelevant = Ok(<<>>)
    /\ FilterIdle
    /\ ScorerIdle
    /\ AnalyzerIdle
    /\ PipeIdle
    /\ ExtIdle

SpecGroup == GroupInit /\ [][FinderNext]_vars

(***************************************************************************)
(* Cost specification: the tracker over a usage file that is missing or    *)
(* was written on day 0, Apify and Claude tracking calls while the days    *)
(* pass, and the queries get_stats and get_today_cost at any time.         *)
(***************************************************************************)
CostStores == {StoreFile("missing", EmptyDict), StoreFile("json", EarlierStore)}

CostInit ==
    /\ t_store \in CostStores
    /\ t_created = FALSE
    /\ t_data = EmptyDict
    /\ t_loaded = EmptyDict
    /\ t_day = 0
    /\ t_calls = 0
    /\ t_log = <<>>
    /\ t_res = "none"
    /\ t_stage = "analyze"
    /\ t_focus = "any"
    /\ OnlyTracker

\* the variables that a query leaves alone, besides those of the tracker
besideQueryVars ==
    <<coreVars, viralVars, geoVars, credVars, dashVars, singleVars, batchVars>>

\* get_stats(): the resets stay in the tracker's data; nothing is saved
GetStats ==
    /\ t_created
    /\ t_data' = get_stats(t_data, t_day)
    /\ UNCHANGED <<t_store, t_created, t_loaded, t_day, t_calls, t_log,
                   t_res, t_stage, t_focus>>
    /\ UNCHANGED <<u_today, u_day, besideQueryVars>>

GetTodayCost ==
    /\ t_created
    /\ u_today' = get_today_cost(t_data)
    /\ u_day' = t_day
    /\ UNCHANGED trackerVars
    /\ UNCHANGED besideQueryVars

CostNext ==
    \/ GetUsageTracker
    \/ TrackApifyRun
    \/ TrackClaudeRequest
    \/ NextDay
    \/ GetStats
    \/ GetTodayCost

SpecCost == CostInit /\ [][CostNext]_vars

(***************************************************************************)
(* Claims about the Data Filter (checked under SpecFilter)                 *)
(***************************************************************************)
\* the deduplication key as the data model states it
ClaimKey(r) ==
    IF r.post_id = ""
    THEN <<r.platform, SubSeq(r.content, 1, Min(50, Len(r.content)))>>
    ELSE <<r.platform, r.post_id>>

\* the records of data whose key does not occur earlier in data, in order
RECURSIVE FirstOccurrences(_, _)
FirstOccurrences(data, i) ==
    IF i > Len(data) THEN <<>>
    ELSE IF \A j \in 1..(i - 1) : ClaimKey(data[j]) /= ClaimKey(data[i])
         THEN <<data[i]>> \o FirstOccurrences(data, i + 1)
         ELSE FirstOccurrences(data, i + 1)

\* C6: _remove_duplicates is idempotent; its output has no two records with
\* the same key (platform, post_id), or (platform, first 50 characters of
\* content) when post_id is empty, and is exactly the input's records that
\* are the first of their key, in input order.
C6_DedupIdempotentFirstKept ==
    fop = "remove_duplicates" =>
        /\ ~fres.raised
        /\ remove_duplicates(fres.val) = fres.val
        /\ \A i, j \in 1..Len(fres.val) :
              i /= j => ClaimKey(fres.val[i]) /= ClaimKey(fres.val[j])
        /\ fres.val = FirstOccurrences(fin, 1)

\* an input in which a later record repeats, by its first 50 characters of
\* content, the key of an earlier one with another content, and one is gone
C6_Witness ==
    /\ fop = "remove_duplicates"
    /\ Len(fres.val) < Len(fin)
    /\ \E i, j \in 1..Len(fin) :
          /\ i < j
          /\ fin[i].post_id = ""
          /\ fin[i].content /= fin[j].content
          /\ ClaimKey(fin[i]) = ClaimKey(fin[j])
          /\ \E k \in 1..Len(fres.val) : fres.val[k] = fin[i]
          /\ \A k \in 1..Len(fres.val) : fres.val[k] /= fin[j]

InOutput(r) == ~fres.raised /\ \E k \in 1..Len(fres.val) : fres.val[k] = r

IsTimestamp(r) == r.posted_at.k \in {"dt", "dtz"}

\* C7: with hours = 48, _filter_by_date keeps a non-trends record posted
\* 47 hours ago, drops one posted 49 hours ago, keeps one without posted_at,
\* keeps one posted in the future, and keeps every "googletrends" record.
C7_DateBoundary ==
    (fop = "filter_by_date" /\ fhours = 48) =>
        \A i \in 1..Len(fin) :
            LET r == fin[i] IN
            /\ r.platform = "googletrends" => InOutput(r)
            /\ r.platform /= "googletrends" =>
                  /\ r.posted_at.k = "none" => InOutput(r)
                  /\ (IsTimestamp(r) /\ r.posted_at.h = 0 - 47) => InOutput(r)
                  /\ (IsTimestamp(r) /\ r.posted_at.h > 0) => InOutput(r)
                  /\ (IsTimestamp(r) /\ r.posted_at.h = 0 - 49) => ~InOutput(r)

(***************************************************************************)
(* Claims about the Trend Finder (checked under SpecFinder)                *)
(***************************************************************************)
\* a record that the AI mode turns into a trend: applicable and named
Named(r) ==
    /\ r.ai_analysis.k = "dict"
    /\ r.ai_analysis.restaurant_applicable
    /\ r.ai_analysis.item_name \notin {"", PyNone}

IsVariant(r) == Named(r) /\ r.ai_analysis.item_name \in {nameThe, namePlain}

\* the records of data named by either variant, in input order
RECURSIVE Variants(_)
Variants(data) ==
    IF data = <<>> THEN <<>>
    ELSE (IF IsVariant(Head(data)) THEN <<Head(data)>> ELSE <<>>)
             \o Variants(Tail(data))

CountNamed(data, name) ==
    Cardinality({i \in 1..Len(data) :
                    Named(data[i]) /\ data[i].ai_analysis.item_name = name})

RECURSIVE SumOf(_, _)
SumOf(posts, field) ==
    IF posts = <<>> THEN 0
    ELSE (CASE field = "views" -> Head(posts).views
            [] field = "likes" -> Head(posts).likes
            [] field = "comments" -> Head(posts).comments
            [] field = "shares" -> Head(posts).shares)
         + SumOf(Tail(posts), field)

\* both variants occur, and no other name of the input is close enough to
\* them to be grouped with them
BothVariantsAlone ==
    /\ CountNamed(tin, nameThe) > 0
    /\ CountNamed(tin, namePlain) > 0
    /\ \A i \in 1..Len(tin) :
          (Named(tin[i]) /\ ~IsVariant(tin[i])) =>
              ~FracGeq(calculate_similarity(
                           normalize_trend_name(tin[i].ai_analysis.item_name),
                           "lavender latte"),
                       Frac(7, 10))

\* the trends of the outcome that hold a record of either variant
VariantTrends ==
    {n \in 1..Len(tfound.val) :
        \E k \in 1..Len(tfound.val[n].posts) :
            IsVariant(tfound.val[n].posts[k])}

\* exactly one aggregate, holding the records of both variants and their sums
OneSummedAggregate ==
    /\ ~tfound.raised
    /\ Cardinality(VariantTrends) = 1
    /\ LET t == tfound.val[CHOOSE n \in VariantTrends : TRUE]
           v == Variants(tin)
       IN  /\ t.posts = v
           /\ Len(t.posts) = CountNamed(tin, nameThe) + CountNamed(tin, namePlain)
           /\ t.normalized_name = "lavender latte"
           /\ t.total_views = SumOf(v, "views")
           /\ t.total_likes = SumOf(v, "likes")
           /\ t.total_comments = SumOf(v, "comments")
           /\ t.total_shares = SumOf(v, "shares")

VariantTrendName == tfound.val[CHOOSE n \in VariantTrends : TRUE].trend_name

\* C10 as stated: one aggregate with the summed totals, displayed under the
\* variant that has more posts, whichever variant came first.
C10_NameOfLargerVariant ==
    (top = "find_ai" /\ BothVariantsAlone) =>
        /\ OneSummedAggregate
        /\ CountNamed(tin, nameThe) > CountNamed(tin, namePlain)
              => VariantTrendName = nameThe
        /\ CountNamed(tin, namePlain) > CountNamed(tin, nameThe)
              => VariantTrendName = namePlain

\* C10 amended: one aggregate with the summed totals, displayed under the
\* variant of the first such record of the input, whichever variant has
\* more posts.
C10_NameOfFirstVariant ==
    (top = "find_ai" /\ BothVariantsAlone) =>
        /\ OneSummedAggregate
        /\ VariantTrendName = Variants(tin)[1].ai_analysis.item_name

\* the first record is of the variant that has fewer posts
C10_Witness ==
    /\ top = "find_ai"
    /\ BothVariantsAlone
    /\ Variants(tin)[1].ai_analysis.item_name = namePlain
    /\ CountNamed(tin, nameThe) > CountNamed(tin, namePlain)
    /\ ~tfound.raised
    /\ \E n \in 1..Len(tfound.val) :
          /\ tfound.val[n].trend_name = namePlain
          /\ Len(tfound.val[n].posts) = 3

(***************************************************************************)
(* Claims about the Trend Scorer (checked under SpecScorer); the scores    *)
(* are in hundredths                                                       *)
(***************************************************************************)
InCenti(x, lo, hi) == 100 * lo <= x /\ x <= 100 * hi

\* C8: every UTS score that score_trends attaches lies in [0, 100], and so
\* do Velocity, Momentum, Engagement, Geographic and Platform diversity.
C8_ScoreBounds ==
    (sop = "score_trends" /\ ~sres.raised) =>
        \A i \in 1..Len(sres.val) :
            /\ InCenti(sres.val[i].uts_score, 0, 100)
            /\ InCenti(sres.val[i].velocity_score, 0, 100)
            /\ InCenti(sres.val[i].momentum_score, 0, 100)
            /\ InCenti(sres.val[i].engagement_score, 0, 100)
            /\ InCenti(sres.val[i].geographic_score, 0, 100)
            /\ InCenti(sres.val[i].platform_diversity_score, 0, 100)

\* a trend of large magnitudes: the raw score is beyond the scale, and
\* Velocity, Momentum and Engagement are at their caps
C8_Witness ==
    /\ sop = "score_trends"
    /\ ~sres.raised
    /\ \E i \in 1..Len(sres.val) :
          /\ sres.val[i].uts_score = 100 * 100
          /\ sres.val[i].velocity_score = 100 * 100
          /\ sres.val[i].momentum_score = 100 * 100
          /\ sres.val[i].engagement_score = 100 * 100
          /\ sres.val[i].trend.total_views > 100000

\* C9: for every trend, also one whose newest post is dated in the future,
\* Time decay lies in [1.0, 2.0] and Competition in [1.0, 3.0].
C9_DenominatorBounds ==
    (sop = "score_trends" /\ ~sres.raised) =>
        \A i \in 1..Len(sres.val) :
            /\ InCenti(sres.val[i].time_decay_score, 1, 2)
            /\ InCenti(sres.val[i].competition_score, 1, 3)


(***************************************************************************)
(* Claims about the AI Analyzer (checked under SpecAnalyzer)               *)
(***************************************************************************)
\* a record without the annotations of analyze_batch
Unannotated(r) == [r EXCEPT !.ai_analysis = NoAnalysis, !.ai_error = FALSE]

\* C1: analyze_batch returns the full input list: every input record exactly
\* once and in order, a record whose analysis failed carrying
\* ai_analysis = None and an ai_error, so the output is as long as the input
C1_ReturnsFullInput ==
    (aop = "analyze_batch" /\ ~ares.ret.raised) =>
        /\ Len(ares.ret.val) = Len(ain)
        /\ \A i \in 1..Len(ain) :
              /\ Unannotated(ares.ret.val[i]) = ain[i]
              /\ aresults[i].k = "exception" =>
                    /\ ares.ret.val[i].ai_analysis = NoneAnalysis
                    /\ ares.ret.val[i].ai_error

(***************************************************************************)
(* Claims about a pipeline run (checked under SpecPipeline)                *)
(***************************************************************************)
Ended(c) == status[c] \in {"returned", "raised"}
LoopOver == collector_i > Len(Collectors)

\* C2 (as claimed): the collectors run concurrently: while the collect of a
\* collector has not finished, the collect of the next one can start
C2_CollectorsConcurrent ==
    \A c \in 1..(Len(Collectors) - 1) :
        status[c] = "running" => ENABLED CollectStart(c + 1)

\* C2 (amended): the collectors run one at a time in list order: while the
\* collect of a collector runs, the collect of every earlier one has ended
\* and no later one has started
C2_CollectorsSequential ==
    \A c \in 1..Len(Collectors) :
        status[c] /= "pending" =>
            /\ \A d \in 1..(c - 1) : Ended(d)
            /\ status[c] = "running" =>
                  \A d \in (c + 1)..Len(Collectors) : status[d] = "pending"

C2_Witness ==
    /\ status[2] = "running"
    /\ status[1] = "returned"
    /\ outputs[1].val /= <<>>

\* the outputs of the collectors that did not raise, in list order, from c on
RECURSIVE ConcatOutputs(_)
ConcatOutputs(c) ==
    IF c > Len(Collectors) THEN <<>>
    ELSE (IF outputs[c].raised THEN <<>> ELSE outputs[c].val)
         \o ConcatOutputs(c + 1)

\* C3: a collector whose collect raises is left out and the run goes on:
\* every collector is invoked exactly once, and the raw data is the
\* concatenation, in list order, of the outputs of those that did not raise
C3_RaisingCollectorExcluded ==
    /\ \A c \in 1..Len(Collectors) : calls[c] <= 1
    /\ LoopOver =>
          /\ \A c \in 1..Len(Collectors) : calls[c] = 1 /\ Ended(c)
          /\ run_raw_data = ConcatOutputs(1)

C3_Witness ==
    /\ LoopOver
    /\ status[2] = "raised"
    /\ outputs[1].val /= <<>>
    /\ outputs[4].val /= <<>>
    /\ calls[3] = 1

Stages == {"DataFilter", "AIAnalyzer", "TrendFinder", "TrendScorer"}

\* C4: when every collector returns an empty list or raises, run_pipeline
\* returns an empty result and invokes none of the Data Filter, the AI
\* Analyzer, the Trend Finder and the Trend Scorer
C4_EmptyRunReturnsEarly ==
    (args.mode = "cli" /\ LoopOver /\ run_raw_data = <<>>) =>
        /\ invoked \cap Stages = {}
        /\ pc \in {"collect", "done"}
        /\ pc = "done" => returned = "empty"

C4_Witness ==
    /\ args.mode = "cli"
    /\ pc = "done"
    /\ returned = "empty"
    /\ invoked = {}
    /\ \E c \in 1..Len(Collectors) : status[c] = "raised"
    /\ \E c \in 1..Len(Collectors) : status[c] = "returned"

\* the analysis of every record failed
EveryAnalysisFailed ==
    /\ ai_results /= <<>>
    /\ \A i \in 1..Len(ai_results) : ai_results[i].k = "exception"

\* C5: in run_pipeline, when the AI step failed (the analysis of every
\* record failing included) the Trend Finder runs in text-only mode over the
\* filtered records
C5_TextModeOnAiFailure ==
    (/\ args.mode = "cli"
     /\ pc \in {"find", "score", "done"}
     /\ "AIAnalyzer" \in invoked
     /\ EveryAnalysisFailed) =>
        /\ ~run_use_ai
        /\ run_analyzed_data = run_filtered_data

(***************************************************************************)
(* Claims about the Viral Content Filter (checked under SpecViral)         *)
(***************************************************************************)
InViral(r) ==
    ~vres.raised /\ \E k \in 1..Len(vres.val) : vres.val[k].item = r

\* the input of the virality step: of filter_trending_content, the records
\* that _filter_business_relevant kept
ReachedVirality(r) ==
    \/ vop = "filter_viral_content"
    \/ /\ vop = "filter_trending_content"
       /\ LET relevant ==
                  filter_business_relevant(AnnotateAll(vin), vvertical)
          IN  /\ ~relevant.raised
              /\ \E k \in 1..Len(relevant.val) : relevant.val[k].item = r

\* C11: every record of a non-trends platform in the output of
\* filter_trending_content (and of its virality step) has views >= 1000,
\* likes >= 50, likes / views >= 0.01 and views + likes*10 + comments*5 +
\* shares*20 >= min_engagement; a record with 500 views is never in the
\* output; a record with 2000 views and 100 likes that reached the virality
\* step is in the output when its engagement reaches min_engagement, as it
\* does for the default of 100.
C11_ViralThresholds ==
    (vop \in {"filter_trending_content", "filter_viral_content"}
        /\ ~vres.raised) =>
        /\ \A k \in 1..Len(vres.val) :
              LET r == vres.val[k].item IN
              r.platform /= "google_trends" =>
                  /\ r.views >= 1000
                  /\ r.likes >= 50
                  /\ 100 * r.likes >= r.views
                  /\ r.views + r.likes * 10 + r.comments * 5 + r.shares * 20
                        >= vmin
        /\ \A i \in 1..Len(vin) :
              /\ vin[i].views = 500 => ~InViral(vin[i])
              /\ (/\ vin[i].views = 2000 /\ vin[i].likes = 100
                  /\ vin[i].platform /= "google_trends"
                  /\ ReachedVirality(vin[i])
                  /\ \/ vmin = 100
                     \/ vin[i].views + vin[i].likes * 10
                            + vin[i].comments * 5 + vin[i].shares * 20 >= vmin)
                     => InViral(vin[i])

\* a record of 2000 views and 100 likes passed the whole filter, one of 500
\* views with large likes, comments and shares reached the virality step and
\* was dropped there
C11_Witness ==
    /\ vop = "filter_trending_content"
    /\ ~vres.raised
    /\ \E i, j \in 1..Len(vin) :
          /\ vin[i].views = 2000 /\ vin[i].likes = 100
          /\ InViral(vin[i])
          /\ vin[j].views = 500 /\ vin[j].likes > 100
          /\ ReachedVirality(vin[j])
          /\ ~InViral(vin[j])


(***************************************************************************)
(* Claims about the geography utilities (checked under SpecGeo)            *)
(***************************************************************************)
\* the codes of the states whose full name or two-letter code is x, case
\* ignored
StatesNamed(x) ==
    {US_STATE_CODES[i][2] : i \in
        {j \in 1..Len(US_STATE_CODES) :
            \/ Upper(x) = Upper(US_STATE_CODES[j][1])
            \/ Upper(x) = SubSeq(US_STATE_CODES[j][2], 4, 5)}}

\* the codes of the states or listed cities whose name is x, case ignored;
\* a name that is both a state and a city is the state
PlacesNamed(x) ==
    LET states == {US_STATE_CODES[j][2] : j \in
                      {i \in 1..Len(US_STATE_CODES) :
                          Upper(x) = Upper(US_STATE_CODES[i][1])}}
        cities == {CITY_CODES[j][2] : j \in
                      {i \in 1..Len(CITY_CODES) :
                          Upper(x) = Upper(CITY_CODES[i][1])}}
    IN  IF states /= {} THEN states ELSE cities

\* the documented resolution order
DocumentedGeoCode(loc) ==
    IF loc.k = "none" \/ loc.s = "" THEN ""
    ELSE LET l == Strip(loc.s)
             commas == {i \in 1..Len(l) : SubSeq(l, i, i) = ","}
             last == CHOOSE i \in commas : \A j \in commas : j <= i
             part == Strip(SubSeq(l, last + 1, Len(l)))
         IN  IF Len(l) = 5 /\ SubSeq(l, 1, 3) = "US-" THEN l
             ELSE IF commas /= {}
             THEN IF StatesNamed(part) /= {}
                  THEN CHOOSE c \in StatesNamed(part) : TRUE
                  ELSE ""
             ELSE IF PlacesNamed(l) /= {}
             THEN CHOOSE c \in PlacesNamed(l) : TRUE
             ELSE ""

\* C12: location_to_geo_code follows the documented resolution order for
\* every input: absent or empty gives ""; a 5-character US-XX is returned
\* unchanged; in "City, ST" the part after the last comma is matched, case
\* ignored, against the states by full name or two-letter code; a bare
\* state name or listed city gives its code; and when no stage matches the
\* result is the empty code.
C12_GeoResolution ==
    gop = "location_to_geo_code" => gres = DocumentedGeoCode(gin)


(***************************************************************************)
(* Claims about the Usage Tracker (checked under SpecTracker, and under    *)
(* SpecHistory for the bound of the history)                               *)
(***************************************************************************)
\* every service is there with every field of the default structure
WellFormed(data) ==
    \A s \in Services :
        Has(data, s) /\ DOMAIN data[s] = DOMAIN get_default_data(0)[s]

EventsOf(s) == SelectSeq(t_log, LAMBDA e : e.service = s)

TodaySet(s) == {TodayFields(s)[i] : i \in 1..Len(TodayFields(s))}
TotalSet(s) ==
    DOMAIN get_default_data(0)[s] \ (TodaySet(s) \cup {"last_reset", "history"})

\* what an event adds to a counter
Amount(e, field) ==
    CASE field \in {"total_cost_usd", "cost_today"} -> e.entry.cost_usd
      [] field = "total_tokens_input" -> e.entry.input_tokens
      [] field = "total_tokens_output" -> e.entry.output_tokens
      [] field = "tokens_today" -> e.entry.total_tokens
      [] field \in {"total_quota_units", "quota_today"} ->
           e.entry.quota_units
      [] OTHER -> 1

AnyDay == 0 - 2

\* the sum of what the events of a day (of every day for AnyDay) add
RECURSIVE SumOfEvents(_, _, _)
SumOfEvents(events, field, day) ==
    IF events = <<>> THEN 0
    ELSE (IF day = AnyDay \/ Head(events).day = day
          THEN Amount(Head(events), field) ELSE 0)
         + SumOfEvents(Tail(events), field, day)

\* what a daily counter held at load time, if that day is still the day of
\* the counter
Carried(s, field) ==
    IF t_loaded[s].last_reset = t_data[s].last_reset THEN t_loaded[s][field]
    ELSE 0

\* C13: daily rollover.  From well-formed data, a service that has tracked
\* events has the day of its last event as last_reset, daily counters that
\* count the events of that day only, and totals that count all its events;
\* the events of one service, rollover included, leave the data of every
\* other service as they were
C13_DailyRollover ==
    (t_created /\ WellFormed(t_loaded)) =>
        \A s \in Services :
            \E events \in {EventsOf(s)} :
                IF events = <<>> THEN t_data[s] = t_loaded[s]
                ELSE /\ t_data[s].last_reset = events[Len(events)].day
                     /\ \A f \in TodaySet(s) :
                           t_data[s][f] =
                               Carried(s, f)
                               + SumOfEvents(events, f, t_data[s].last_reset)
                     /\ \A f \in TotalSet(s) :
                           t_data[s][f] =
                               t_loaded[s][f] + SumOfEvents(events, f, AnyDay)

\* an event of apify on a day and one on the next day, while reddit keeps
\* the daily count of the day before
C13_Witness ==
    /\ t_created
    /\ t_loaded = EarlierStore
    /\ \E events \in {EventsOf("apify")} :
          /\ Len(events) = 2
          /\ events[2].day = events[1].day + 1
          /\ events[2].entry.cost_usd = 20000
          /\ t_data.apify.cost_today = 20000
          /\ t_data.apify.runs_today = 1
          /\ t_data.apify.total_runs = 2
    /\ t_data.reddit.requests_today = 2
    /\ t_data.reddit.last_reset < t_day


\* C14: bound of the history.  From the zeroed store, the history of a
\* service holds its last min(n, 100) tracked events, oldest first, n being
\* the number of its events; after 150 events the oldest entry kept is
\* that of event 51
C14_HistoryBound ==
    t_created =>
        \A s \in Services :
            \E events \in {EventsOf(s)}, history \in {t_data[s].history} :
                /\ Len(history) = Min(Len(events), HistoryLimit)
                /\ \A i \in 1..Len(history) :
                      history[i] =
                          events[Len(events) - Len(history) + i].entry
                /\ Len(events) = 150 =>
                      history[1].timestamp = events[51].entry.timestamp

\* 150 events of reddit: the history starts at the 51st call
C14_Witness ==
    /\ t_created
    /\ t_focus = "reddit"
    /\ Len(t_log) = 150
    /\ Len(t_data.reddit.history) = HistoryLimit
    /\ t_data.reddit.history[1] = PlainEntry(Timestamp(0, 51))
    /\ t_data.reddit.history[HistoryLimit] = PlainEntry(Timestamp(0, 150))

\* n dollars, in millionths of a dollar
Dollars(n) == n * 1000000

\* C15: cost of a Claude request.  Each request tracked from well-formed
\* data records 3 dollars per million input tokens plus 15 dollars per
\* million output tokens (3.00 for 1,000,000 and 0 tokens, 15.00 for 0 and
\* 1,000,000), in its history entry; total_cost_usd grows by the sum of
\* these costs and total_tokens_input, total_tokens_output by the sums of
\* the token counts
C15_ClaudeCost ==
    (t_created /\ WellFormed(t_loaded)) =>
        \E events \in {EventsOf("claude")} :
            /\ \A i \in 1..Len(events) :
                  \E e \in {events[i].entry} :
                      /\ e.cost_usd =
                             3 * e.input_tokens + 15 * e.output_tokens
                      /\ (e.input_tokens = 1000000 /\ e.output_tokens = 0)
                            => e.cost_usd = Dollars(3)
                      /\ (e.input_tokens = 0 /\ e.output_tokens = 1000000)
                            => e.cost_usd = Dollars(15)
            /\ events /= <<>> =>
                  t_data.claude.history[Len(t_data.claude.history)] =
                      events[Len(events)].entry
            /\ t_data.claude.total_cost_usd =
                  t_loaded.claude.total_cost_usd
                  + SumOfEvents(events, "total_cost_usd", AnyDay)
            /\ t_data.claude.total_tokens_input =
                  t_loaded.claude.total_tokens_input
                  + SumOfEvents(events, "total_tokens_input", AnyDay)
            /\ t_data.claude.total_tokens_output =
                  t_loaded.claude.total_tokens_output
                  + SumOfEvents(events, "total_tokens_output", AnyDay)

\* the two requests of the examples, tracked from the zeroed store
C15_Witness ==
    /\ t_created
    /\ t_loaded = get_default_data(0)
    /\ \E events \in {EventsOf("claude")} :
          /\ Len(events) = 2
          /\ events[1].entry.input_tokens = 1000000
          /\ events[1].entry.cost_usd = Dollars(3)
          /\ events[2].entry.output_tokens = 1000000
          /\ events[2].entry.cost_usd = Dollars(15)
    /\ t_data.claude.total_cost_usd = Dollars(18)

\* C16: a tracking call never fails its caller.  Whatever the file held
\* when the tracker was created, no track_ call raises
C16_TrackingNeverRaises == t_res /= "KeyError"

\* the pipeline run has begun to analyse
Analysing == t_stage = "analyze"

\* C20 (as claimed): the tracking calls of the YouTube Collector and of the
\* AI Analyzer interleave: while the collector can still track a request,
\* the analyzer can track one too
C20_TrackingCallsInterleave ==
    ENABLED TrackYoutubeRequest => ENABLED TrackClaudeRequest

\* the entry of every event of the service is in the history of the file
Persisted(s) ==
    \E events \in {EventsOf(s)} :
        \A i \in 1..Len(events) :
            \E j \in 1..Len(t_store.v[s].history) :
                t_store.v[s].history[j] = events[i].entry

\* C20 (amended): in a pipeline run the tracking calls of the YouTube
\* Collector all come before those of the AI Analyzer, each call is over
\* before the next begins, and all go to the one tracker of the process;
\* after a call whose write went through, the file holds the whole of the
\* tracker's data, so the events of both writers
C20_PersistedHoldsBoth ==
    /\ \A i, j \in 1..Len(t_log) :
          (t_log[i].service = "claude" /\ t_log[j].service = "youtube")
              => j < i
    /\ (t_res = "saved" /\ WellFormed(t_loaded)) =>
          /\ t_store = StoreFile("json", t_data)
          /\ Persisted("youtube")
          /\ Persisted("claude")

\* a request of the collector and one of the analyzer, both in the file
C20_Witness ==
    /\ t_res = "saved"
    /\ t_loaded = get_default_data(0)
    /\ Len(t_log) = 2
    /\ t_log[1].service = "youtube"
    /\ t_log[2].service = "claude"
    /\ Len(t_store.v.youtube.history) = 1
    /\ Len(t_store.v.claude.history) = 1


(***************************************************************************)
(* Claims about the collectors (checked under SpecCollectors)              *)
(***************************************************************************)
Absent(value) == value \in {PyNone, ""}

CredentialAbsent(c) ==
    CASE Collectors[c] = "RedditCollector" ->
           Absent(k_settings.reddit_client_id)
           \/ Absent(k_settings.reddit_client_secret)
      [] Collectors[c] = "YouTubeCollector" ->
           Absent(k_settings.youtube_api_key)
      [] Collectors[c] = "TikTokCollector" ->
           Absent(k_settings.apify_api_key)
      [] OTHER -> FALSE

\* the records of the collectors from c up to the one whose turn it is
RECURSIVE RawUpTo(_)
RawUpTo(c) ==
    IF c < 1 THEN <<>>
    ELSE RawUpTo(c - 1)
         \o (IF k_out[c].raised THEN <<>> ELSE k_out[c].val)

\* C17: a collector whose credential is absent is built without a client,
\* and its collect returns [] with no external call and no tracking call;
\* the loop goes on to the other collectors, whose records make raw_data
C17_AbsentCredentialSkips ==
    /\ \A c \in 1..Len(Collectors) :
          CredentialAbsent(c) =>
              /\ k_i >= 1 => k_clients[c] = NoClient
              /\ k_i > c =>
                    /\ k_out[c] = Ok(<<>>)
                    /\ k_ext[c] = 0
                    /\ k_tracked[c] = 0
    /\ k_i >= 1 => k_raw = RawUpTo(k_i - 1)

\* the YouTube key is absent: its collect is skipped, and the Reddit and
\* TikTok collectors that ran before and after it returned their records
C17_Witness ==
    /\ k_i > Len(Collectors)
    /\ k_settings.youtube_api_key = PyNone
    /\ k_clients[3] = NoClient
    /\ k_out[3] = Ok(<<>>)
    /\ k_ext[3] = 0
    /\ k_out[2] = Ok(Feed(2))
    /\ k_out[4] = Ok(Feed(4))
    /\ k_raw = Feed(2) \o Feed(4)


(***************************************************************************)
(* The worked example of the Trend Scorer (checked under SpecScorer); the  *)
(* scores are in hundredths                                                *)
(***************************************************************************)
\* the scored trends whose only post is that of the worked example
WorkedExamples ==
    IF sop = "score_trends" /\ ~sres.raised
    THEN {sres.val[i] : i \in {j \in 1..Len(sres.val) :
                                  sres.val[j].trend.posts
                                      = <<WorkedExamplePost>>}}
    ELSE {}

C19_SessionCaching ==
    /\ d_ran => d_render = "press"
    /\ d_render \in {"widget", "rerun"} =>
          /\ ~d_flag
          /\ ~d_ran
          /\ d_results = d_before
          /\ d_shown = d_results
    /\ d_results.set => d_results.val = d_returned
    /\ d_render = "rerun" => (d_shown.set /\ d_shown.val.run = d_runs)

\* a second run has replaced the results of the first, the render after it
\* displays them, and a later change of a widget displays them again
C19_Witness ==
    /\ d_render = "widget"
    /\ d_runs = 2
    /\ d_shown.set
    /\ d_shown.val.run = 2
    /\ d_shown.val.inputs /= d_inputs
    /\ ~d_ran

(***************************************************************************)
(* Claims about _analyze_single (checked under SpecSingle)                 *)
(***************************************************************************)
Message(call) == call /= NoCall /\ ~call.raised

\* the reply is a JSON object that lacks a required field
MissingFields(call) ==
    /\ Message(call)
    /\ call.reply.json /\ call.reply.shape = "object"
    /\ ~(required_fields \subseteq call.reply.has)

NotJson(call) == Message(call) /\ ~call.reply.json

TrackerUsable ==
    ~track_claude_request(load_data(r_store, 0), 0, 0, 0, 1).raised

\* C21 as stated: a reply that parses as JSON but lacks a required field is
\* retried like a transport error: before the last attempt the call sleeps
\* and tries again, and the failure is raised only on the last attempt.
C21_MissingFieldsRetried ==
    (MissingFields(r_last) /\ r_pc /= "call") =>
        IF r_attempt < r_max - 1 THEN r_pc = "sleep"
        ELSE r_pc = "done" /\ r_res.k = "raise"

\* C21 as the code has it: a reply that parses as JSON but lacks a required
\* field ends the call at once on whichever attempt it arrives: no sleep
\* and no further model call follow, and the call raises (the ValueError of
\* the validation when the tracking call returned).
C21_MissingFieldsRaisedAtOnce ==
    MissingFields(r_last) =>
        /\ r_pc = "done"
        /\ r_calls = r_attempt + 1
        /\ r_waits = [i \in 1..r_attempt |-> 2 * i]
        /\ r_res.k = "raise"
        /\ TrackerUsable => r_res = Raises("ValueError")

C21_Witness ==
    /\ MissingFields(r_last)
    /\ r_max = 3 /\ r_attempt = 0 /\ r_calls = 1
    /\ r_res = Raises("ValueError")

C22_Policy ==
    \* the calls made and the waits slept follow the attempt number
    /\ r_calls = (IF r_pc = "call" THEN r_attempt ELSE r_attempt + 1)
    /\ r_waits = [i \in 1..Len(r_waits) |-> 2 * i]
    /\ Len(r_waits) = (IF r_pc = "sleep" THEN r_attempt + 1 ELSE r_attempt)
    /\ r_calls <= r_max
    \* a rate-limit or API error waits before the last attempt and is
    \* raised on the last one
    /\ (r_pc /= "call" /\ r_last.raised /\ Retried(r_last.err)) =>
          IF r_attempt < r_max - 1
          THEN r_pc = "sleep" /\ r_waits[r_attempt + 1] = (r_attempt + 1) * 2
          ELSE r_pc = "done" /\ r_res = Raises(r_last.err)
    \* any other exception is raised at once
    /\ (r_pc /= "call" /\ r_last.raised /\ ~Retried(r_last.err)) =>
          r_pc = "done" /\ r_res = Raises(r_last.err)
    /\ r_pc = "sleep" => r_last.raised /\ Retried(r_last.err)
    /\ r_pc = "done" =>
          /\ r_calls >= 1
          /\ r_res.k \in {"return", "raise"}

\* after a wait comes the next attempt
C22_WaitThenAttempt ==
    r_pc = "sleep" => r_pc' = "call" /\ r_attempt' = r_attempt + 1

\* C22: a rate-limit or API error on attempt a < max_retries - 1 is followed
\* by a wait of (a + 1) * 2 seconds and another attempt; on the last attempt
\* it is raised; any other exception is raised at once; one record costs at
\* least 1 and at most max_retries model calls; and the call always ends
\* with a result or an error.
C22_RetryPolicy ==
    /\ []C22_Policy
    /\ [][C22_WaitThenAttempt]_vars
    /\ <>(r_pc = "done" /\ r_res.k \in {"return", "raise"})

C22_Witness ==
    /\ r_pc = "done" /\ r_max = 3 /\ r_calls = 3
    /\ r_waits = <<2, 4>>
    /\ r_last.raised /\ r_res = Raises("RateLimitError")

\* C23: a model call that returns a reply that is not JSON is the last one
\* and the call returns the fallback result; every model call that returned
\* a message has been reported to the tracker once and no failed call has.
C23_FallbackAndTracking ==
    /\ (NotJson(r_last) /\ r_pc /= "call") =>
          r_pc = "done" /\ r_res = Returns(Fallback)
    /\ r_tracked = r_good

(***************************************************************************)
(* Claims about the batches of analyze_batch (checked under SpecBatch)     *)
(***************************************************************************)
\* the number (from 0) of the chunk of batch_size records that holds
\* record i
ChunkOf(i) == (i - 1) \div q_size

\* the indices up to n of the records whose analysis did not fail, in
\* ascending order
RECURSIVE KeptUpTo(_, _)
KeptUpTo(results, n) ==
    IF n = 0 THEN <<>>
    ELSE KeptUpTo(results, n - 1)
         \o (IF results[n].k = "exception" THEN <<>> ELSE <<n>>)

\* the records whose batches are over
Processed == Min(q_first - 1, Len(q_data))

\* C24: the input is cut into consecutive chunks of batch_size; no record
\* of a later chunk is submitted before every record of the chunks before
\* it has resolved; a record that fails stops neither its chunk nor the
\* later ones (at the return every record was submitted and has resolved);
\* and the records of the result are in the order of the input.
C24_BatchBarrierAndOrder ==
    \* consecutive chunks
    /\ ChunkOf(q_first) * q_size + 1 = q_first
    /\ q_submitted =
          1..(IF q_pc = "gather" THEN batch_last(q_data, q_first, q_size)
              ELSE Processed)
    \* the barrier
    /\ \A i \in q_submitted : \A j \in 1..Len(q_data) :
          ChunkOf(j) < ChunkOf(i) => q_results[j] /= Pending
    /\ \A i \in 1..Len(q_data) : q_results[i] /= Pending => i \in q_submitted
    \* no abort
    /\ q_pc /= "done" => ENABLED BatchNext
    /\ q_pc = "done" =>
          /\ q_submitted = 1..Len(q_data)
          /\ \A i \in 1..Len(q_data) : q_results[i] /= Pending
          /\ q_ret = analyze_batch(q_data, q_results, q_size).ret
    \* the order
    /\ q_pc /= "gather" =>
          LET kept == KeptUpTo(q_results, Processed)
          IN  q_analyzed =
                 [n \in 1..Len(kept) |->
                     [q_data[kept[n]] EXCEPT
                         !.ai_analysis = q_results[kept[n]].a]]
    /\ (q_pc = "done" /\ ~q_ret.raised) => q_ret.val = q_analyzed

C24_Witness ==
    /\ q_pc = "done" /\ Len(q_data) = 3 /\ q_size = 2
    /\ q_results[1] = Failed
    /\ q_results[2].k = "analysis" /\ q_results[3].k = "analysis"
    /\ q_data[2] /= q_data[3]
    /\ ~q_ret.raised /\ Len(q_ret.val) = 2

(***************************************************************************)
(* Claims about the grouping and the merging of the Trend Finder (checked  *)
(* under SpecGroup)                                                        *)
(***************************************************************************)
\* the candidate trends that _group_similar_trends is given in AI mode
Candidates == extract_from_ai_analysis(tin).val

SimilarNames(a, b) ==
    FracGeq(calculate_similarity(a, b), SIMILARITY_THRESHOLD)

\* the output trends that hold the posts of candidate i
OutputsOf(i) ==
    {n \in 1..Len(tfound.val) :
        \E k \in 1..Len(tfound.val[n].posts) :
            tfound.val[n].posts[k] = Candidates[i].posts[1]}

\* C25: any two candidate trends whose normalized names have similarity
\* >= 0.7 end up in the same output trend, whatever the order of the list.
C25_GroupingComplete ==
    (top = "find_ai" /\ ~tfound.raised) =>
        \A i, j \in 1..Len(Candidates) :
            SimilarNames(Candidates[i].normalized_name,
                         Candidates[j].normalized_name)
                => OutputsOf(i) = OutputsOf(j)

\* the candidates merged into output trend n
MembersOf(n) == {i \in 1..Len(Candidates) : n \in OutputsOf(i)}

RECURSIVE ConcatPosts(_, _, _)
ConcatPosts(trends, idx, n) ==
    IF n > Len(trends) THEN <<>>
    ELSE (IF n \in idx THEN trends[n].posts ELSE <<>>)
             \o ConcatPosts(trends, idx, n + 1)

RECURSIVE TotalOver(_, _)
TotalOver(trends, field) ==
    IF trends = <<>> THEN 0
    ELSE (CASE field = "posts" -> Len(Head(trends).posts)
            [] field = "views" -> Head(trends).total_views
            [] field = "likes" -> Head(trends).total_likes
            [] field = "comments" -> Head(trends).total_comments
            [] field = "shares" -> Head(trends).total_shares)
         + TotalOver(Tail(trends), field)

\* the member with the most posts, the earliest of them on a tie
MostPosts(idx) ==
    CHOOSE m \in idx :
        \A o \in idx :
            \/ Len(Candidates[m].posts) > Len(Candidates[o].posts)
            \/ Len(Candidates[m].posts) = Len(Candidates[o].posts) /\ m <= o

\* the conservation in AI mode, trend by trend and over the grouping
C26_MergeConserves ==
    (top = "find_ai" /\ ~tfound.raised) =>
        /\ \A n \in 1..Len(tfound.val) :
              LET t == tfound.val[n]
                  idx == MembersOf(n)
                  main == Candidates[MostPosts(idx)]
              IN  /\ idx /= {}
                  /\ t.posts = ConcatPosts(Candidates, idx, 1)
                  /\ t.platforms = UNION {Candidates[i].platforms : i \in idx}
                  /\ t.total_views = TotalOver(Pick(Candidates, idx, 1), "views")
                  /\ t.total_likes = TotalOver(Pick(Candidates, idx, 1), "likes")
                  /\ t.total_comments =
                        TotalOver(Pick(Candidates, idx, 1), "comments")
                  /\ t.total_shares = TotalOver(Pick(Candidates, idx, 1), "shares")
                  /\ \A i \in idx : t.viral_potential >= Candidates[i].viral_potential
                  /\ \E i \in idx : t.viral_potential = Candidates[i].viral_potential
                  /\ t.trend_name = main.trend_name
                  /\ t.normalized_name = main.normalized_name
                  /\ t.category = main.category
                  /\ t.sentiment = main.sentiment
        /\ \A field \in {"posts", "views", "likes", "comments", "shares"} :
              TotalOver(tfound.val, field) = TotalOver(Candidates, field)

\* the same sums in text-only mode
C26_TextModeConserves ==
    top = "find_text" =>
        \A field \in {"posts", "views", "likes", "comments", "shares"} :
            TotalOver(tfound.val, field)
                = TotalOver(extract_from_text(tin), field)

\* C26: each output trend holds the concatenated posts, the united
\* platforms, the summed totals and the largest viral_potential of its
\* members, under the names, category and sentiment of the member with the
\* most posts (the earliest on a tie); over the grouping the posts and the
\* totals of the output add up to those of the input.
C26_MergingConservesData == C26_MergeConserves /\ C26_TextModeConserves

\* "iced latte" opens a group that "latte", with two posts, joins
C26_Witness ==
    /\ top = "find_ai" /\ ~tfound.raised
    /\ Len(Candidates) = 2
    /\ Candidates[1].normalized_name = "iced latte"
    /\ Len(Candidates[2].posts) = 2
    /\ Len(tfound.val) = 1
    /\ tfound.val[1].trend_name = "Latte"
    /\ Len(tfound.val[1].posts) = 3

(***************************************************************************)
(* Posts of a trend aggregate (checked under SpecFinder)                   *)
(***************************************************************************)
\* no record occurs twice in the input
DistinctInput == \A i, j \in 1..Len(tin) : tin[i] = tin[j] => i = j

\* C30: in every trend that find_trends returns, in AI mode or in text-only
\* mode, no record occurs more than once in the posts, so its views, likes,
\* comments and shares enter the totals of the trend at most once.
C30_PostsOnce ==
    (top \in {"find_ai", "find_text"} /\ ~tfound.raised /\ DistinctInput) =>
        \A n \in 1..Len(tfound.val) :
            LET t == tfound.val[n]
            IN  /\ \A k, l \in 1..Len(t.posts) : t.posts[k] = t.posts[l] => k = l
                /\ t.total_views <= SumOf(tin, "views")
                /\ t.total_likes <= SumOf(tin, "likes")
                /\ t.total_comments <= SumOf(tin, "comments")
                /\ t.total_shares <= SumOf(tin, "shares")

(***************************************************************************)
(* The trends records in the Data Filter (checked under SpecFilter)        *)
(***************************************************************************)
\* the tag on the records of the Google Trends Collector
TrendsTag == platform_name("GoogleTrendsCollector")

HasKeyword(r, vertical) ==
    LET keywords == get_vertical_keywords(vertical)
    IN  \E i \in 1..Len(keywords) :
           Contains(Lower(r.content), Lower(keywords[i]))

\* the time of a record dated with a naive datetime or ISO string
Dated(r) == r.posted_at.k \in {"dt", "str"}

SpanHours(posts) ==
    LET times == {PostTimes(posts)[i].h : i \in 1..Len(PostTimes(posts))}
    IN  IF times = {} THEN 0 ELSE MaxOf(times) - MinOf(times)

\* C28: Momentum is min(100, post_count / max(time_span_days, 1) * 10): a
\* span of the posts shorter than one day counts as one day, so that k
\* posts of the same day give min(100, 10k).
C28_MomentumFloorOneDay ==
    (sop = "score_trends" /\ ~sres.raised) =>
        \A i \in 1..Len(sres.val) :
            LET posts == sres.val[i].trend.posts
                post_count == Len(posts)
            IN  sres.val[i].momentum_score =
                   IF post_count = 0 THEN 0
                   ELSE RoundCenti(FracMin(Frac(post_count * 24 * 10,
                                                Max(SpanHours(posts), 24)),
                                           100))

(***************************************************************************)
(* Claims about the queries of the Usage Tracker (checked under SpecCost)  *)
(***************************************************************************)
\* the days of the Apify and Claude events of this process and of the
\* usage file that the tracker loaded
CostEventDays ==
    {t_log[i].day : i \in {j \in 1..Len(t_log) :
                              t_log[j].service \in {"apify", "claude"}}}
    \cup UNION {{t_loaded[s].history[i].timestamp[1] :
                    i \in 1..Len(t_loaded[s].history)} :
                s \in {"apify", "claude"} \cap DOMAIN t_loaded}

\* C29: get_today_cost() does not include the cost of an event of an
\* earlier day: called on a day without any Apify or Claude event it
\* returns 0, whether or not get_stats() was called before it.
C29_TodayCostOfToday ==
    (u_today.k = "value" /\ u_day \notin CostEventDays) => u_today.v = 0

====
